---- MODULE Spec2Model ----
(***************************************************************************)
(* Elastic-net regularised Poisson-like GLM of notebooks/glmnet_tutorial:  *)
(* the pathwise cyclical coordinate-descent solver (fitmodel) and the      *)
(* pathwise proximal batch gradient-descent solver (fitmodel_graddesc),    *)
(* with the loss, gradient, Hessian and proximal functions they call.      *)
(*                                                                         *)
(* Numbers.  The code computes in float64.  Here a coefficient, a          *)
(* predictor or a loss is an integer count of units of 1 / SC, SC = 2^16.  *)
(* A cached gradient or Hessian entry, a value of an elementwise map of    *)
(* the predictor z (qu, expit and the quotients the code forms from them)  *)
(* and a sum of such values is a "wide" number, with FG = 2^8 more parts   *)
(* per unit.  The inputs drawn are exact.  Sums, differences, sign and     *)
(* comparison are exact; a product or a quotient is the unit (Mul, WDiv)   *)
(* or the part (WMul) nearest to the exact one, so that a computed value   *)
(* follows the float64 value up to the roundings accumulated since the     *)
(* inputs.  A coefficient times reg_lambda * (1 - alpha) is exact when the *)
(* latter is a multiple of 1 / FG, as it is in float64 for a power of two: *)
(* where the code's g[k] / h[k] is beta_prev[k] exactly, so is WDiv's.     *)
(* The maps are tabulated at NodesPerUnit points per unit of z over        *)
(* -8 <= z <= 8 and interpolated by the cubic through the four nearest     *)
(* nodes, which is within two parts in SC * FG of the float value (six    *)
(* for grad_s_by_q, which grows like exp(-z) below zero); the solvers take *)
(* no step that would evaluate them outside that range.                    *)
(* An integer has 32 bits: products are formed in parts (MulParts).        *)
(* Array indices are 0-based as in numpy: a matrix is a function from the  *)
(* row index to a function from the column index.                          *)
(***************************************************************************)
EXTENDS Integers, Sequences, FiniteSets, TLC

SC == 65536
SCBits == 16
FG == 256
NodesPerUnit == 128
NodeStep == SC \div NodesPerUnit
ZLim == 8 * SC

Abs(a) == IF a < 0 THEN -a ELSE a
Sign(a) == IF a > 0 THEN 1 ELSE IF a < 0 THEN -1 ELSE 0

\* F(v), with v evaluated once
With(v, F(_)) == CHOOSE r \in {F(u) : u \in {v}} : TRUE

\* <<q, r>> with a * b = q * SC + r and 0 <= r < SC
MulParts(a, b) ==
  With(<<a, b>>, LAMBDA v :
    LET a1 == v[1] \div SC
        a0 == v[1] % SC
        bq == v[2] \div SC
        br == v[2] % SC
        hi == a0 * (br \div FG)
        lo == a0 * (br % FG)
        m == hi + lo \div FG
    IN <<a1 * v[2] + a0 * bq + m \div FG, (m % FG) * FG + (lo % FG)>>)

\* the integer nearest to a * b / SC, halves away from zero
Mul(a, b) ==
  With(<<a, b>>, LAMBDA v :
    With(MulParts(Abs(v[1]), Abs(v[2])), LAMBDA p :
      Sign(v[1]) * Sign(v[2]) * (p[1] + (IF 2 * p[2] >= SC THEN 1 ELSE 0))))

\* a natural number up to 2^61 is <<hi, lo>>: hi * B30 + lo, 0 <= lo < B30
B15 == 32768
B30 == B15 * B15
\* r * r for 0 <= r <= B30
Sq(r) ==
  With(r, LAMBDA v :
    LET r1 == v \div B15
        r0 == v % B15
        mid == 2 * r1 * r0
        lo == (mid % B15) * B15 + r0 * r0
    IN <<r1 * r1 + mid \div B15 + lo \div B30, lo % B30>>)
BigAdd(a, b) ==
  With(<<a, b>>, LAMBDA v :
    <<v[1][1] + v[2][1] + (v[1][2] + v[2][2]) \div B30,
      (v[1][2] + v[2][2]) % B30>>)
BigLeq(a, b) ==
  With(<<a, b>>, LAMBDA v :
    v[1][1] < v[2][1] \/ (v[1][1] = v[2][1] /\ v[1][2] <= v[2][2]))

RECURSIVE ISqrtB(_, _, _)
\* floor of the square root of v, given lo * lo <= v < hi * hi
ISqrtB(v, lo, hi) ==
  IF hi - lo <= 1 THEN lo
  ELSE With((lo + hi) \div 2, LAMBDA mid :
         IF BigLeq(Sq(mid), v) THEN ISqrtB(v, mid, hi) ELSE ISqrtB(v, lo, mid))
\* the integer nearest to the square root of v, which is below bound
Sqrt(v, bound) ==
  With(v, LAMBDA w :
    With(ISqrtB(w, 0, bound), LAMBDA r :
      IF BigLeq(BigAdd(Sq(r), <<0, r + 1>>), w) THEN r + 1 ELSE r))

RECURSIVE Sum(_, _)
\* f[0] + ... + f[m-1]
Sum(f, m) == IF m = 0 THEN 0 ELSE f[m - 1] + Sum(f, m - 1)

(***************************************************************************)
(* Wide numbers: <<u, f>> is (u + f / FG) / SC, with 0 <= f < FG.          *)
(***************************************************************************)
WNorm(u, f) == With(<<u, f>>, LAMBDA v : <<v[1] + v[2] \div FG, v[2] % FG>>)
\* of a count of fine units, 1 / (SC * FG) each
WFine(n) == With(n, LAMBDA v : <<v \div FG, v % FG>>)
WUnits(u) == <<u, 0>>
WAdd(a, b) ==
  With(<<a, b>>, LAMBDA v : WNorm(v[1][1] + v[2][1], v[1][2] + v[2][2]))
WSub(a, b) ==
  With(<<a, b>>, LAMBDA v : WNorm(v[1][1] - v[2][1], v[1][2] - v[2][2]))
\* the product of the number u / SC and the wide number w, to the nearest
\* fine unit
WMul(u, w) ==
  With(<<u, w>>, LAMBDA v :
    With(<<MulParts(v[1], v[2][1]), MulParts(v[1], v[2][2])>>, LAMBDA p :
      WNorm(p[1][1],
            p[2][1] + (p[1][2] * FG + p[2][2] + SC \div 2) \div SC)))
\* the integer nearest to w * SC, halves away from zero
WRound(w) ==
  With(w, LAMBDA v :
    IF v[1] >= 0 THEN v[1] + (IF 2 * v[2] >= FG THEN 1 ELSE 0)
    ELSE v[1] + (IF 2 * v[2] > FG THEN 1 ELSE 0))
WLeq(a, b) ==
  With(<<a, b>>, LAMBDA v :
    v[1][1] < v[2][1] \/ (v[1][1] = v[2][1] /\ v[1][2] <= v[2][2]))
WSign(a) ==
  With(a, LAMBDA v : IF v[1] < 0 THEN -1 ELSE IF v = <<0, 0>> THEN 0 ELSE 1)
WAbs(a) == With(a, LAMBDA v : IF v[1] < 0 THEN WSub(WUnits(0), v) ELSE v)
RECURSIVE WDivInt(_, _)
\* <<q, r>> with a = q * b + r and 0 <= r < b, for wide a >= 0 and b > 0
WDivInt(a, b) ==
  With(<<a, b>>, LAMBDA v :
    IF ~WLeq(v[2], v[1]) THEN <<0, v[1]>>
    ELSE IF WLeq(v[2], WSub(v[1], v[2]))
         THEN With(WDivInt(v[1], WAdd(v[2], v[2])), LAMBDA d :
                IF WLeq(v[2], d[2])
                THEN <<2 * d[1] + 1, WSub(d[2], v[2])>>
                ELSE <<2 * d[1], d[2]>>)
         ELSE <<1, WSub(v[1], v[2])>>)
RECURSIVE WDivFrac(_, _, _, _)
\* the integer nearest to r * 2^k / b (wide 0 <= r < b), added to acc * 2^k
WDivFrac(r, b, k, acc) ==
  With(<<r, acc, WSub(b, r)>>, LAMBDA v :
    IF k = 0 THEN v[2] + (IF WLeq(v[3], v[1]) THEN 1 ELSE 0)
    ELSE IF WLeq(v[3], v[1])
         THEN WDivFrac(WSub(v[1], v[3]), b, k - 1, 2 * v[2] + 1)
         ELSE WDivFrac(WAdd(v[1], v[1]), b, k - 1, 2 * v[2]))
\* the quotient a / b of two wide numbers (b # 0): the integer nearest to
\* SC times it, halves away from zero
WDiv(a, b) ==
  With(<<WAbs(a), WAbs(b), WSign(a) * WSign(b)>>, LAMBDA v :
    With(WDivInt(v[1], v[2]), LAMBDA d :
      v[3] * WDivFrac(d[2], v[2], SCBits, d[1])))
RECURSIVE WSum(_, _)
\* f[0] + ... + f[m-1] of wide numbers
WSum(f, m) == IF m = 0 THEN WUnits(0) ELSE WAdd(f[m - 1], WSum(f, m - 1))

Rows(m) == Cardinality(DOMAIN m)
Cols(m) == Cardinality(DOMAIN m[0])
\* numpy broadcasting of an (n, 1) or (n, n) array against an (n,) array
\* (aligned with the last axis): entry (i, j) of the broadcast array
Bc(m, i, j) == IF Cols(m) = 1 THEN m[i][0] ELSE m[i][j]

(***************************************************************************)
(* The scalar maps at the nodes z = -8 - 1/NodesPerUnit + (i - 1) /        *)
(* NodesPerUnit, i = 1, 2, ..., in fine units, nearest to the float value. *)
(***************************************************************************)
\* np.log(1 + eps + np.exp(z)) at the nodes
QuTable ==
  <<
    5583, 5627, 5671, 5716, 5761, 5806, 5851, 5897, 5943, 5990, 6037, 6084,
    6132, 6180, 6229, 6277, 6327, 6376, 6426, 6477, 6527, 6579, 6630, 6682,
    6735, 6787, 6841, 6894, 6948, 7003, 7058, 7113, 7169, 7225, 7282, 7339,
    7396, 7454, 7513, 7572, 7631, 7691, 7751, 7812, 7873, 7935, 7997, 8060,
    8123, 8187, 8251, 8316, 8381, 8447, 8513, 8580, 8647, 8715, 8783, 8852,
    8921, 8991, 9062, 9133, 9204, 9277, 9349, 9423, 9497, 9571, 9646, 9722,
    9798, 9875, 9952, 10030, 10109, 10188, 10268, 10349, 10430, 10511, 10594,
    10677, 10761, 10845, 10930, 11016, 11102, 11189, 11277, 11365, 11454,
    11544, 11635, 11726, 11818, 11911, 12004, 12098, 12193, 12288, 12385,
    12482, 12580, 12678, 12778, 12878, 12979, 13081, 13183, 13287, 13391,
    13496, 13602, 13708, 13816, 13924, 14033, 14143, 14254, 14366, 14478,
    14592, 14706, 14822, 14938, 15055, 15173, 15292, 15412, 15533, 15654,
    15777, 15901, 16025, 16151, 16278, 16405, 16534, 16663, 16794, 16926,
    17058, 17192, 17327, 17463, 17600, 17738, 17877, 18017, 18158, 18300,
    18444, 18588, 18734, 18881, 19029, 19178, 19328, 19480, 19633, 19786,
    19942, 20098, 20255, 20414, 20574, 20735, 20898, 21062, 21227, 21393,
    21561, 21730, 21900, 22072, 22245, 22419, 22595, 22772, 22951, 23130,
    23312, 23494, 23679, 23864, 24051, 24240, 24430, 24621, 24814, 25009,
    25205, 25402, 25601, 25802, 26004, 26208, 26413, 26620, 26829, 27039,
    27251, 27465, 27680, 27897, 28115, 28336, 28558, 28781, 29007, 29234,
    29463, 29694, 29927, 30161, 30398, 30636, 30876, 31118, 31362, 31608,
    31855, 32105, 32356, 32610, 32865, 33123, 33383, 33644, 33908, 34173,
    34441, 34711, 34983, 35257, 35533, 35812, 36092, 36375, 36660, 36947,
    37237, 37528, 37822, 38119, 38417, 38718, 39022, 39327, 39635, 39946,
    40259, 40574, 40892, 41212, 41535, 41860, 42188, 42519, 42852, 43188,
    43526, 43867, 44210, 44557, 44906, 45257, 45612, 45969, 46329, 46692,
    47058, 47426, 47798, 48172, 48549, 48930, 49313, 49699, 50088, 50480,
    50876, 51274, 51676, 52080, 52488, 52899, 53313, 53731, 54152, 54576,
    55003, 55434, 55868, 56305, 56746, 57190, 57638, 58089, 58544, 59003,
    59464, 59930, 60399, 60872, 61349, 61829, 62313, 62801, 63292, 63788,
    64287, 64790, 65298, 65809, 66324, 66843, 67366, 67894, 68425, 68960,
    69500, 70044, 70592, 71145, 71702, 72263, 72828, 73398, 73973, 74552,
    75135, 75723, 76316, 76913, 77515, 78121, 78732, 79348, 79969, 80595,
    81226, 81861, 82502, 83147, 83798, 84453, 85114, 85780, 86451, 87127,
    87809, 88495, 89188, 89885, 90588, 91297, 92011, 92731, 93456, 94187,
    94924, 95666, 96414, 97168, 97928, 98694, 99466, 100243, 101027, 101817,
    102613, 103416, 104224, 105039, 105860, 106688, 107522, 108363, 109210,
    110064, 110924, 111791, 112665, 113546, 114433, 115327, 116229, 117137,
    118053, 118975, 119905, 120842, 121787, 122738, 123697, 124664, 125638,
    126620, 127609, 128606, 129611, 130624, 131644, 132672, 133709, 134753,
    135806, 136867, 137936, 139013, 140099, 141193, 142296, 143407, 144527,
    145656, 146793, 147939, 149095, 150259, 151432, 152614, 153806, 155006,
    156216, 157436, 158665, 159903, 161152, 162409, 163677, 164954, 166242,
    167539, 168847, 170164, 171492, 172830, 174179, 175538, 176907, 178287,
    179678, 181080, 182492, 183916, 185350, 186796, 188253, 189721, 191201,
    192692, 194194, 195709, 197234, 198772, 200322, 201884, 203458, 205044,
    206642, 208253, 209876, 211512, 213160, 214821, 216495, 218182, 219882,
    221595, 223322, 225062, 226815, 228582, 230362, 232157, 233965, 235787,
    237623, 239474, 241339, 243218, 245112, 247020, 248943, 250881, 252834,
    254802, 256785, 258784, 260798, 262827, 264872, 266933, 269010, 271103,
    273212, 275338, 277479, 279638, 281812, 284004, 286213, 288438, 290681,
    292941, 295219, 297514, 299826, 302157, 304505, 306872, 309257, 311660,
    314081, 316522, 318981, 321459, 323956, 326472, 329008, 331563, 334137,
    336732, 339346, 341981, 344636, 347311, 350007, 352723, 355461, 358219,
    360999, 363800, 366622, 369466, 372332, 375220, 378130, 381062, 384017,
    386994, 389994, 393017, 396064, 399133, 402227, 405344, 408484, 411649,
    414838, 418052, 421290, 424552, 427840, 431153, 434491, 437855, 441244,
    444659, 448101, 451568, 455062, 458583, 462131, 465705, 469307, 472937,
    476594, 480279, 483992, 487733, 491503, 495302, 499129, 502986, 506872,
    510787, 514733, 518708, 522714, 526750, 530816, 534914, 539042, 543203,
    547394, 551618, 555873, 560161, 564481, 568834, 573220, 577640, 582092,
    586579, 591099, 595654, 600243, 604867, 609526, 614220, 618950, 623715,
    628517, 633354, 638228, 643139, 648087, 653073, 658096, 663156, 668255,
    673393, 678569, 683784, 689038, 694332, 699666, 705040, 710454, 715909,
    721405, 726942, 732521, 738142, 743804, 749510, 755258, 761049, 766884,
    772762, 778684, 784651, 790662, 796719, 802820, 808967, 815160, 821400,
    827686, 834019, 840399, 846827, 853302, 859826, 866399, 873020, 879691,
    886411, 893182, 900002, 906874, 913796, 920770, 927796, 934874, 942004,
    949187, 956423, 963713, 971057, 978455, 985908, 993416, 1000980, 1008599,
    1016275, 1024007, 1031797, 1039644, 1047548, 1055511, 1063533, 1071613,
    1079753, 1087953, 1096213, 1104534, 1112916, 1121359, 1129865, 1138432,
    1147063, 1155756, 1164513, 1173335, 1182221, 1191171, 1200187, 1209269,
    1218417, 1227632, 1236914, 1246264, 1255682, 1265168, 1274723, 1284348,
    1294042, 1303807, 1313643, 1323550, 1333529, 1343580, 1353704, 1363901,
    1374172, 1384517, 1394937, 1405431, 1416002, 1426649, 1437372, 1448173,
    1459051, 1470007, 1481042, 1492157, 1503351, 1514625, 1525980, 1537416,
    1548935, 1560535, 1572218, 1583985, 1595836, 1607771, 1619791, 1631897,
    1644089, 1656368, 1668734, 1681187, 1693729, 1706360, 1719080, 1731890,
    1744791, 1757783, 1770867, 1784043, 1797312, 1810674, 1824131, 1837682,
    1851328, 1865070, 1878908, 1892844, 1906877, 1921008, 1935238, 1949568,
    1963997, 1978527, 1993158, 2007892, 2022727, 2037666, 2052708, 2067855,
    2083107, 2098465, 2113928, 2129499, 2145177, 2160963, 2176858, 2192862,
    2208977, 2225202, 2241539, 2257987, 2274549, 2291224, 2308012, 2324916,
    2341935, 2359070, 2376321, 2393690, 2411177, 2428783, 2446508, 2464353,
    2482320, 2500407, 2518617, 2536949, 2555405, 2573985, 2592691, 2611522,
    2630479, 2649563, 2668775, 2688115, 2707585, 2727184, 2746914, 2766775,
    2786769, 2806895, 2827154, 2847548, 2868076, 2888741, 2909541, 2930479,
    2951554, 2972768, 2994121, 3015615, 3037249, 3059024, 3080942, 3103002,
    3125207, 3147556, 3170050, 3192690, 3215476, 3238411, 3261493, 3284724,
    3308105, 3331637, 3355319, 3379154, 3403141, 3427282, 3451577, 3476027,
    3500633, 3525396, 3550315, 3575393, 3600630, 3626026, 3651582, 3677300,
    3703179, 3729221, 3755427, 3781797, 3808331, 3835032, 3861899, 3888933,
    3916135, 3943506, 3971046, 3998757, 4026639, 4054693, 4082920, 4111319,
    4139894, 4168643, 4197567, 4226669, 4255947, 4285404, 4315039, 4344854,
    4374849, 4405025, 4435384, 4465924, 4496649, 4527557, 4558650, 4589929,
    4621394, 4653047, 4684887, 4716917, 4749135, 4781544, 4814144, 4846935,
    4879919, 4913097, 4946468, 4980034, 5013795, 5047753, 5081907, 5116259,
    5150810, 5185559, 5220509, 5255659, 5291010, 5326564, 5362320, 5398280,
    5434444, 5470813, 5507388, 5544169, 5581157, 5618353, 5655757, 5693370,
    5731194, 5769228, 5807473, 5845930, 5884600, 5923483, 5962580, 6001892,
    6041419, 6081162, 6121122, 6161299, 6201694, 6242308, 6283141, 6324194,
    6365468, 6406962, 6448679, 6490618, 6532781, 6575167, 6617777, 6660613,
    6703674, 6746961, 6790475, 6834217, 6878186, 6922384, 6966811, 7011468,
    7056355, 7101473, 7146822, 7192404, 7238218, 7284265, 7330546, 7377060,
    7423810, 7470795, 7518015, 7565472, 7613166, 7661097, 7709265, 7757672,
    7806318, 7855203, 7904327, 7953692, 8003297, 8053144, 8103232, 8153562,
    8204134, 8254950, 8306009, 8357311, 8408857, 8460648, 8512684, 8564966,
    8617493, 8670266, 8723286, 8776552, 8830066, 8883827, 8937836, 8992093,
    9046599, 9101354, 9156358, 9211612, 9267116, 9322869, 9378873, 9435128,
    9491634, 9548391, 9605400, 9662660, 9720173, 9777937, 9835955, 9894225,
    9952747, 10011524, 10070553, 10129836, 10189373, 10249164, 10309209,
    10369508, 10430062, 10490870, 10551933, 10613251, 10674824, 10736651,
    10798735, 10861073, 10923667, 10986517, 11049622, 11112983, 11176599,
    11240472, 11304600, 11368984, 11433624, 11498520, 11563672, 11629080,
    11694744, 11760664, 11826840, 11893272, 11959960, 12026904, 12094103,
    12161559, 12229270, 12297237, 12365459, 12433937, 12502671, 12571659,
    12640904, 12710403, 12780157, 12850166, 12920430, 12990948, 13061721,
    13132748, 13204029, 13275564, 13347353, 13419396, 13491691, 13564241,
    13637043, 13710097, 13783405, 13856964, 13930776, 14004839, 14079154,
    14153720, 14228537, 14303605, 14378924, 14454492, 14530310, 14606378,
    14682695, 14759261, 14836076, 14913139, 14990450, 15068008, 15145814,
    15223866, 15302165, 15380710, 15459500, 15538536, 15617817, 15697343,
    15777113, 15857126, 15937382, 16017882, 16098624, 16179608, 16260833,
    16342300, 16424007, 16505955, 16588142, 16670568, 16753233, 16836137,
    16919278, 17002656, 17086271, 17170123, 17254210, 17338532, 17423090,
    17507881, 17592906, 17678164, 17763654, 17849377, 17935331, 18021516,
    18107931, 18194576, 18281450, 18368553, 18455883, 18543441, 18631226,
    18719237, 18807473, 18895935, 18984621, 19073530, 19162663, 19252018,
    19341596, 19431394, 19521413, 19611652, 19702110, 19792787, 19883682,
    19974794, 20066123, 20157668, 20249428, 20341403, 20433592, 20525994,
    20618609, 20711436, 20804474, 20897722, 20991181, 21084849, 21178725,
    21272809, 21367100, 21461597, 21556300, 21651208, 21746320, 21841636,
    21937154, 22032875, 22128797, 22224919, 22321242, 22417763, 22514483,
    22611401, 22708515, 22805826, 22903332, 23001033, 23098927, 23197015,
    23295296, 23393768, 23492431, 23591285, 23690327, 23789559, 23888978,
    23988585, 24088378, 24188357, 24288521, 24388868, 24489400, 24590113,
    24691009, 24792086, 24893343, 24994780, 25096395, 25198189, 25300159,
    25402307, 25504630, 25607127, 25709800, 25812645, 25915663, 26018853,
    26122214, 26225746, 26329447, 26433317, 26537355, 26641560, 26745931,
    26850469, 26955171, 27060037, 27165067, 27270260, 27375614, 27481130,
    27586806, 27692641, 27798635, 27904788, 28011097, 28117563, 28224185,
    28330962, 28437893, 28544978, 28652215, 28759605, 28867145, 28974836,
    29082677, 29190667, 29298804, 29407090, 29515522, 29624100, 29732823,
    29841690, 29950702, 30059856, 30169153, 30278591, 30388169, 30497888,
    30607746, 30717743, 30827877, 30938149, 31048556, 31159100, 31269778,
    31380591, 31491537, 31602615, 31713826, 31825168, 31936641, 32048243,
    32159975, 32271835, 32383823, 32495938, 32608179, 32720545, 32833037,
    32945653, 33058393, 33171255, 33284240, 33397345, 33510572, 33623919,
    33737385, 33850970, 33964673, 34078494, 34192431, 34306484, 34420652,
    34534936, 34649333, 34763843, 34878467, 34993202, 35108049, 35223006,
    35338074, 35453251, 35568537, 35683931, 35799432, 35915041, 36030755,
    36146575, 36262500, 36378530, 36494663, 36610900, 36727238, 36843679,
    36960221, 37076864, 37193606, 37310448, 37427389, 37544428, 37661564,
    37778798, 37896128, 38013554, 38131075, 38248690, 38366400, 38484203,
    38602099, 38720087, 38838167, 38956338, 39074600, 39192952, 39311393,
    39429923, 39548542, 39667248, 39786041, 39904921, 40023887, 40142939,
    40262076, 40381297, 40500602, 40619991, 40739463, 40859016, 40978652,
    41098369, 41218167, 41338045, 41458002, 41578039, 41698155, 41818349,
    41938620, 42058969, 42179394, 42299895, 42420473, 42541125, 42661852,
    42782653, 42903528, 43024476, 43145497, 43266590, 43387755, 43508991,
    43630298, 43751676, 43873123, 43994640, 44116226, 44237880, 44359602,
    44481392, 44603249, 44725173, 44847163, 44969219, 45091341, 45213527,
    45335777, 45458092, 45580471, 45702912, 45825417, 45947983, 46070612,
    46193302, 46316053, 46438865, 46561737, 46684669, 46807661, 46930711,
    47053820, 47176988, 47300213, 47423495, 47546835, 47670231, 47793684,
    47917192, 48040756, 48164375, 48288049, 48411777, 48535559, 48659395,
    48783284, 48907226, 49031220, 49155266, 49279364, 49403514, 49527714,
    49651966, 49776267, 49900619, 50025020, 50149471, 50273970, 50398518,
    50523115, 50647759, 50772451, 50897190, 51021976, 51146808, 51271687,
    51396612, 51521583, 51646598, 51771659, 51896764, 52021914, 52147108,
    52272345, 52397626, 52522950, 52648316, 52773726, 52899177, 53024670,
    53150205, 53275781, 53401398, 53527056, 53652754, 53778492, 53904270,
    54030088, 54155945, 54281841, 54407775, 54533748, 54659760, 54785809,
    54911895, 55038019, 55164180, 55290378, 55416613, 55542883, 55669190,
    55795532, 55921910, 56048323, 56174771, 56301254, 56427771, 56554323,
    56680908, 56807528, 56934180, 57060866, 57187585, 57314337, 57441121,
    57567938, 57694786, 57821667, 57948578, 58075522, 58202496, 58329502,
    58456538, 58583604, 58710701, 58837827, 58964984, 59092170, 59219385,
    59346630, 59473903, 59601205, 59728536, 59855895, 59983282, 60110697,
    60238139, 60365609, 60493107, 60620631, 60748182, 60875760, 61003365,
    61130995, 61258652, 61386335, 61514043, 61641777, 61769536, 61897320,
    62025130, 62152964, 62280822, 62408705, 62536612, 62664544, 62792499,
    62920477, 63048480, 63176505, 63304554, 63432626, 63560721, 63688838,
    63816978, 63945140, 64073324, 64201530, 64329758, 64458008, 64586279,
    64714571, 64842885, 64971219, 65099575, 65227951, 65356348, 65484765,
    65613202, 65741660, 65870137, 65998635, 66127152, 66255688, 66384244,
    66512819, 66641413, 66770026, 66898657, 67027308, 67155977, 67284664,
    67413369, 67542093, 67670834, 67799594, 67928371, 68057165, 68185977,
    68314806, 68443653, 68572516, 68701396, 68830294, 68959207, 69088138,
    69217084, 69346047, 69475026, 69604021, 69733032, 69862059, 69991102,
    70120160, 70249233, 70378322, 70507426, 70636545, 70765679, 70894828,
    71023992, 71153170, 71282363, 71411570, 71540791, 71670027, 71799277,
    71928541, 72057818, 72187110, 72316415, 72445734, 72575066, 72704411,
    72833770, 72963142, 73092527, 73221925, 73351336, 73480760, 73610196,
    73739645, 73869106, 73998580, 74128066, 74257564, 74387074, 74516596,
    74646130, 74775677, 74905234, 75034804, 75164385, 75293977, 75423581,
    75553196, 75682822, 75812460, 75942108, 76071768, 76201438, 76331119,
    76460811, 76590514, 76720227, 76849950, 76979684, 77109428, 77239183,
    77368947, 77498722, 77628506, 77758301, 77888105, 78017920, 78147743,
    78277577, 78407420, 78537272, 78667134, 78797006, 78926886, 79056776,
    79186675, 79316583, 79446499, 79576425, 79706360, 79836303, 79966255,
    80096216, 80226185, 80356163, 80486149, 80616144, 80746147, 80876158,
    81006177, 81136205, 81266240, 81396284, 81526336, 81656395, 81786462,
    81916537, 82046620, 82176710, 82306808, 82436913, 82567026, 82697147,
    82827274, 82957409, 83087551, 83217701, 83347857, 83478021, 83608191,
    83738369, 83868554, 83998745, 84128943, 84259148, 84389360, 84519578,
    84649803, 84780034, 84910272, 85040516, 85170767, 85301024, 85431288,
    85561557, 85691833, 85822115, 85952403, 86082698, 86212998, 86343304,
    86473616, 86603934, 86734258, 86864588, 86994923, 87125264, 87255611,
    87385963, 87516321, 87646684, 87777053, 87907428, 88037807, 88168193,
    88298583, 88428979, 88559380, 88689786, 88820197, 88950614, 89081035,
    89211462, 89341893, 89472330, 89602771, 89733217, 89863668, 89994124,
    90124585, 90255051, 90385521, 90515996, 90646475, 90776959, 90907448,
    91037941, 91168438, 91298940, 91429447, 91559958, 91690473, 91820992,
    91951516, 92082044, 92212576, 92343113, 92473654, 92604198, 92734747,
    92865300, 92995857, 93126418, 93256982, 93387551, 93518124, 93648700,
    93779281, 93909865, 94040453, 94171045, 94301640, 94432239, 94562842,
    94693448, 94824059, 94954672, 95085289, 95215910, 95346534, 95477162,
    95607793, 95738428, 95869066, 95999707, 96130352, 96261000, 96391651,
    96522305, 96652963, 96783624, 96914288, 97044956, 97175626, 97306300,
    97436976, 97567656, 97698339, 97829025, 97959714, 98090405, 98221100,
    98351798, 98482498, 98613202, 98743908, 98874617, 99005329, 99136044,
    99266761, 99397482, 99528205, 99658930, 99789659, 99920390, 100051124,
    100181860, 100312599, 100443340, 100574084, 100704831, 100835580,
    100966332, 101097086, 101227843, 101358602, 101489363, 101620127,
    101750894, 101881662, 102012433, 102143207, 102273982, 102404760,
    102535541, 102666323, 102797108, 102927895, 103058684, 103189476,
    103320269, 103451065, 103581863, 103712663, 103843465, 103974269,
    104105076, 104235884, 104366695, 104497507, 104628321, 104759138,
    104889956, 105020777, 105151599, 105282424, 105413250, 105544078,
    105674908, 105805740, 105936574, 106067409, 106198247, 106329086,
    106459927, 106590770, 106721615, 106852461, 106983310, 107114160,
    107245011, 107375865, 107506720, 107637577, 107768435, 107899295,
    108030157, 108161020, 108291885, 108422752, 108553620, 108684490,
    108815361, 108946234, 109077109, 109207985, 109338862, 109469741,
    109600622, 109731504, 109862387, 109993272, 110124159, 110255046,
    110385936, 110516826, 110647719, 110778612, 110909507, 111040403,
    111171301, 111302200, 111433100, 111564002, 111694905, 111825809,
    111956715, 112087622, 112218530, 112349439, 112480350, 112611262,
    112742175, 112873090, 113004006, 113134922, 113265841, 113396760,
    113527680, 113658602, 113789525, 113920449, 114051374, 114182300,
    114313228, 114444156, 114575086, 114706017, 114836949, 114967882,
    115098816, 115229751, 115360687, 115491624, 115622562, 115753502,
    115884442, 116015383, 116146326, 116277269, 116408214, 116539159,
    116670105, 116801053, 116932001, 117062950, 117193901, 117324852,
    117455804, 117586757, 117717711, 117848666, 117979622, 118110578,
    118241536, 118372494, 118503454, 118634414, 118765375, 118896337,
    119027300, 119158264, 119289228, 119420194, 119551160, 119682127,
    119813095, 119944063, 120075033, 120206003, 120336974, 120467946,
    120598918, 120729892, 120860866, 120991841, 121122816, 121253793,
    121384770, 121515748, 121646727, 121777706, 121908686, 122039667,
    122170648, 122301630, 122432613, 122563597, 122694581, 122825566,
    122956552, 123087538, 123218525, 123349513, 123480501, 123611490,
    123742479, 123873470, 124004461, 124135452, 124266444, 124397437,
    124528430, 124659424, 124790419, 124921414, 125052410, 125183406,
    125314403, 125445401, 125576399, 125707397, 125838397, 125969396,
    126100397, 126231398, 126362399, 126493401, 126624404, 126755407,
    126886411, 127017415, 127148420, 127279425, 127410431, 127541437,
    127672444, 127803451, 127934459, 128065467, 128196476, 128327485,
    128458495, 128589505, 128720516, 128851527, 128982539, 129113551,
    129244564, 129375577, 129506590, 129637604, 129768619, 129899634,
    130030649, 130161665, 130292681, 130423698, 130554715, 130685732,
    130816750, 130947769, 131078787, 131209807, 131340826, 131471846,
    131602867, 131733887, 131864909, 131995930, 132126952, 132257975,
    132388997, 132520021, 132651044, 132782068, 132913092, 133044117,
    133175142, 133306167, 133437193, 133568219, 133699246, 133830273,
    133961300, 134092327, 134223355, 134354383, 134485412
  >>
\* expit(z) at the nodes
ExpitTable ==
  <<
    5582, 5626, 5670, 5715, 5760, 5805, 5850, 5896, 5942, 5989, 6036, 6083,
    6131, 6179, 6227, 6276, 6325, 6375, 6425, 6475, 6526, 6577, 6629, 6681,
    6733, 6786, 6839, 6893, 6947, 7001, 7056, 7112, 7167, 7224, 7280, 7337,
    7395, 7453, 7511, 7570, 7629, 7689, 7749, 7810, 7871, 7933, 7995, 8058,
    8121, 8185, 8249, 8314, 8379, 8445, 8511, 8577, 8645, 8712, 8781, 8850,
    8919, 8989, 9059, 9130, 9202, 9274, 9347, 9420, 9494, 9568, 9643, 9719,
    9795, 9872, 9949, 10027, 10106, 10185, 10265, 10345, 10426, 10508, 10591,
    10674, 10757, 10841, 10926, 11012, 11098, 11185, 11273, 11361, 11450,
    11540, 11631, 11722, 11814, 11906, 12000, 12094, 12188, 12284, 12380,
    12477, 12575, 12674, 12773, 12873, 12974, 13076, 13178, 13281, 13385,
    13490, 13596, 13703, 13810, 13918, 14027, 14137, 14248, 14360, 14472,
    14586, 14700, 14815, 14931, 15048, 15166, 15285, 15405, 15525, 15647,
    15770, 15893, 16018, 16143, 16270, 16397, 16526, 16655, 16786, 16917,
    17050, 17183, 17318, 17454, 17590, 17728, 17867, 18007, 18148, 18290,
    18434, 18578, 18724, 18870, 19018, 19167, 19317, 19469, 19621, 19775,
    19930, 20086, 20243, 20402, 20562, 20723, 20885, 21049, 21213, 21380,
    21547, 21716, 21886, 22057, 22230, 22404, 22580, 22757, 22935, 23115,
    23296, 23478, 23662, 23847, 24034, 24222, 24412, 24603, 24796, 24990,
    25186, 25383, 25582, 25782, 25984, 26187, 26392, 26599, 26807, 27017,
    27229, 27442, 27657, 27874, 28092, 28312, 28533, 28757, 28982, 29209,
    29438, 29668, 29900, 30134, 30370, 30608, 30848, 31089, 31333, 31578,
    31825, 32074, 32325, 32578, 32833, 33090, 33349, 33610, 33873, 34139,
    34406, 34675, 34946, 35220, 35496, 35773, 36053, 36336, 36620, 36906,
    37195, 37486, 37780, 38075, 38373, 38674, 38976, 39281, 39589, 39898,
    40210, 40525, 40842, 41162, 41484, 41808, 42135, 42465, 42797, 43132,
    43469, 43809, 44152, 44498, 44846, 45196, 45550, 45906, 46265, 46627,
    46992, 47359, 47730, 48103, 48479, 48858, 49240, 49625, 50013, 50405,
    50799, 51196, 51596, 52000, 52406, 52816, 53229, 53645, 54064, 54487,
    54913, 55342, 55775, 56211, 56650, 57093, 57539, 57989, 58442, 58899,
    59359, 59823, 60291, 60762, 61237, 61715, 62197, 62683, 63173, 63667,
    64164, 64665, 65171, 65680, 66193, 66710, 67231, 67756, 68286, 68819,
    69356, 69898, 70444, 70994, 71549, 72107, 72671, 73238, 73810, 74386,
    74967, 75552, 76142, 76737, 77336, 77940, 78548, 79161, 79779, 80402,
    81029, 81662, 82299, 82941, 83589, 84241, 84898, 85561, 86228, 86901,
    87579, 88262, 88951, 89645, 90344, 91049, 91759, 92475, 93196, 93923,
    94656, 95394, 96138, 96887, 97643, 98404, 99171, 99944, 100724, 101509,
    102300, 103098, 103901, 104711, 105527, 106349, 107178, 108013, 108855,
    109703, 110558, 111419, 112287, 113162, 114044, 114932, 115827, 116729,
    117638, 118555, 119478, 120408, 121346, 122290, 123243, 124202, 125169,
    126143, 127125, 128114, 129112, 130116, 131129, 132149, 133177, 134214,
    135258, 136310, 137370, 138439, 139516, 140601, 141694, 142796, 143906,
    145025, 146153, 147289, 148434, 149588, 150750, 151922, 153103, 154293,
    155491, 156700, 157917, 159144, 160380, 161626, 162881, 164146, 165421,
    166705, 168000, 169304, 170619, 171943, 173278, 174623, 175978, 177343,
    178719, 180106, 181503, 182911, 184330, 185760, 187201, 188652, 190115,
    191589, 193075, 194571, 196080, 197599, 199131, 200674, 202229, 203796,
    205375, 206965, 208568, 210184, 211812, 213452, 215104, 216770, 218448,
    220138, 221842, 223559, 225289, 227032, 228788, 230558, 232341, 234138,
    235949, 237773, 239611, 241463, 243330, 245210, 247105, 249014, 250938,
    252877, 254830, 256798, 258781, 260779, 262792, 264821, 266865, 268924,
    271000, 273090, 275197, 277320, 279459, 281614, 283785, 285973, 288177,
    290398, 292636, 294891, 297163, 299452, 301759, 304082, 306424, 308783,
    311160, 313555, 315967, 318399, 320848, 323316, 325803, 328308, 330832,
    333375, 335938, 338519, 341120, 343741, 346381, 349041, 351722, 354422,
    357142, 359884, 362645, 365427, 368231, 371055, 373900, 376767, 379655,
    382565, 385496, 388450, 391425, 394423, 397443, 400486, 403552, 406640,
    409751, 412886, 416044, 419226, 422431, 425660, 428913, 432190, 435492,
    438818, 442169, 445545, 448946, 452372, 455824, 459301, 462804, 466333,
    469888, 473470, 477077, 480712, 484373, 488062, 491778, 495521, 499292,
    503090, 506917, 510771, 514655, 518566, 522507, 526476, 530475, 534503,
    538560, 542648, 546765, 550913, 555091, 559299, 563538, 567809, 572110,
    576443, 580808, 585204, 589633, 594093, 598587, 603113, 607672, 612264,
    616889, 621548, 626241, 630968, 635729, 640525, 645356, 650221, 655122,
    660058, 665029, 670037, 675081, 680161, 685277, 690431, 695622, 700849,
    706115, 711418, 716760, 722139, 727557, 733014, 738510, 744046, 749621,
    755235, 760890, 766585, 772321, 778097, 783915, 789774, 795674, 801616,
    807601, 813628, 819698, 825810, 831966, 838165, 844408, 850695, 857026,
    863402, 869823, 876288, 882800, 889356, 895959, 902608, 909304, 916046,
    922836, 929672, 936557, 943489, 950470, 957499, 964577, 971704, 978881,
    986107, 993383, 1000710, 1008087, 1015515, 1022994, 1030524, 1038107,
    1045741, 1053428, 1061168, 1068960, 1076806, 1084706, 1092659, 1100667,
    1108729, 1116846, 1125018, 1133245, 1141529, 1149868, 1158264, 1166717,
    1175227, 1183794, 1192418, 1201101, 1209842, 1218642, 1227500, 1236418,
    1245396, 1254433, 1263531, 1272689, 1281908, 1291189, 1300530, 1309934,
    1319400, 1328929, 1338520, 1348175, 1357893, 1367675, 1377521, 1387431,
    1397407, 1407447, 1417553, 1427725, 1437963, 1448268, 1458639, 1469077,
    1479583, 1490157, 1500799, 1511510, 1522289, 1533137, 1544055, 1555043,
    1566101, 1577229, 1588428, 1599699, 1611040, 1622454, 1633940, 1645498,
    1657129, 1668833, 1680611, 1692462, 1704388, 1716388, 1728463, 1740613,
    1752839, 1765140, 1777517, 1789971, 1802502, 1815109, 1827795, 1840557,
    1853398, 1866318, 1879316, 1892393, 1905549, 1918785, 1932102, 1945498,
    1958975, 1972533, 1986172, 1999893, 2013696, 2027581, 2041548, 2055598,
    2069732, 2083948, 2098249, 2112633, 2127102, 2141656, 2156294, 2171018,
    2185827, 2200722, 2215702, 2230770, 2245924, 2261165, 2276493, 2291908,
    2307412, 2323003, 2338683, 2354452, 2370309, 2386255, 2402291, 2418416,
    2434632, 2450937, 2467333, 2483820, 2500397, 2517066, 2533826, 2550678,
    2567621, 2584657, 2601785, 2619006, 2636319, 2653725, 2671225, 2688818,
    2706504, 2724285, 2742159, 2760128, 2778191, 2796349, 2814602, 2832950,
    2851392, 2869931, 2888564, 2907294, 2926119, 2945040, 2964058, 2983171,
    3002382, 3021688, 3041092, 3060592, 3080190, 3099884, 3119676, 3139565,
    3159552, 3179636, 3199818, 3220098, 3240475, 3260951, 3281524, 3302196,
    3322965, 3343833, 3364800, 3385864, 3407027, 3428288, 3449648, 3471106,
    3492663, 3514318, 3536072, 3557924, 3579875, 3601924, 3624072, 3646319,
    3668663, 3691107, 3713648, 3736288, 3759027, 3781863, 3804798, 3827831,
    3850962, 3874191, 3897518, 3920942, 3944464, 3968084, 3991801, 4015616,
    4039527, 4063536, 4087642, 4111844, 4136143, 4160539, 4185030, 4209618,
    4234302, 4259081, 4283956, 4308926, 4333991, 4359151, 4384405, 4409754,
    4435197, 4460734, 4486365, 4512088, 4537905, 4563815, 4589817, 4615911,
    4642097, 4668374, 4694743, 4721203, 4747753, 4774393, 4801123, 4827943,
    4854851, 4881849, 4908935, 4936108, 4963369, 4990717, 5018152, 5045674,
    5073281, 5100973, 5128750, 5156612, 5184558, 5212587, 5240699, 5268894,
    5297171, 5325529, 5353968, 5382488, 5411088, 5439767, 5468525, 5497362,
    5526276, 5555267, 5584335, 5613479, 5642699, 5671993, 5701361, 5730803,
    5760318, 5789906, 5819565, 5849295, 5879095, 5908965, 5938905, 5968912,
    5998988, 6029130, 6059339, 6089613, 6119952, 6150355, 6180822, 6211351,
    6241943, 6272595, 6303309, 6334081, 6364913, 6395803, 6426750, 6457754,
    6488814, 6519929, 6551097, 6582320, 6613595, 6644921, 6676299, 6707726,
    6739203, 6770728, 6802301, 6833920, 6865586, 6897296, 6929050, 6960848,
    6992687, 7024568, 7056490, 7088452, 7120452, 7152489, 7184564, 7216675,
    7248821, 7281001, 7313214, 7345459, 7377736, 7410043, 7442380, 7474745,
    7507138, 7539557, 7572002, 7604472, 7636965, 7669481, 7702019, 7734578,
    7767157, 7799754, 7832369, 7865002, 7897650, 7930313, 7962990, 7995680,
    8028382, 8061095, 8093817, 8126549, 8159289, 8192036, 8224789, 8257547,
    8290308, 8323073, 8355840, 8388608, 8421376, 8454143, 8486908, 8519669,
    8552427, 8585180, 8617927, 8650667, 8683399, 8716121, 8748834, 8781536,
    8814226, 8846903, 8879566, 8912214, 8944847, 8977462, 9010059, 9042638,
    9075197, 9107735, 9140251, 9172744, 9205214, 9237659, 9270078, 9302471,
    9334836, 9367173, 9399480, 9431757, 9464002, 9496215, 9528395, 9560541,
    9592652, 9624727, 9656764, 9688764, 9720726, 9752648, 9784529, 9816368,
    9848166, 9879920, 9911630, 9943296, 9974915, 10006488, 10038013, 10069490,
    10100917, 10132295, 10163621, 10194896, 10226119, 10257287, 10288402,
    10319462, 10350466, 10381413, 10412303, 10443135, 10473907, 10504621,
    10535273, 10565865, 10596394, 10626861, 10657264, 10687603, 10717877,
    10748086, 10778228, 10808304, 10838311, 10868251, 10898121, 10927921,
    10957651, 10987310, 11016898, 11046413, 11075855, 11105223, 11134517,
    11163737, 11192881, 11221949, 11250940, 11279854, 11308691, 11337449,
    11366128, 11394728, 11423248, 11451687, 11480045, 11508322, 11536517,
    11564629, 11592658, 11620604, 11648466, 11676243, 11703935, 11731542,
    11759064, 11786499, 11813847, 11841108, 11868281, 11895367, 11922365,
    11949273, 11976093, 12002823, 12029463, 12056013, 12082473, 12108842,
    12135119, 12161305, 12187399, 12213401, 12239311, 12265128, 12290851,
    12316482, 12342019, 12367462, 12392811, 12418065, 12443225, 12468290,
    12493260, 12518135, 12542914, 12567598, 12592186, 12616677, 12641073,
    12665372, 12689574, 12713680, 12737689, 12761600, 12785415, 12809132,
    12832752, 12856274, 12879698, 12903025, 12926254, 12949385, 12972418,
    12995353, 13018189, 13040928, 13063568, 13086109, 13108553, 13130897,
    13153144, 13175292, 13197341, 13219292, 13241144, 13262898, 13284553,
    13306110, 13327568, 13348928, 13370189, 13391352, 13412416, 13433383,
    13454251, 13475020, 13495692, 13516265, 13536741, 13557118, 13577398,
    13597580, 13617664, 13637651, 13657540, 13677332, 13697026, 13716624,
    13736124, 13755528, 13774834, 13794045, 13813158, 13832176, 13851097,
    13869922, 13888652, 13907285, 13925824, 13944266, 13962614, 13980867,
    13999025, 14017088, 14035057, 14052931, 14070712, 14088398, 14105991,
    14123491, 14140897, 14158210, 14175431, 14192559, 14209595, 14226538,
    14243390, 14260150, 14276819, 14293396, 14309883, 14326279, 14342584,
    14358800, 14374925, 14390961, 14406907, 14422764, 14438533, 14454213,
    14469804, 14485308, 14500723, 14516051, 14531292, 14546446, 14561514,
    14576494, 14591389, 14606198, 14620922, 14635560, 14650114, 14664583,
    14678967, 14693268, 14707484, 14721618, 14735668, 14749635, 14763520,
    14777323, 14791044, 14804683, 14818241, 14831718, 14845114, 14858431,
    14871667, 14884823, 14897900, 14910898, 14923818, 14936659, 14949421,
    14962107, 14974714, 14987245, 14999699, 15012076, 15024377, 15036603,
    15048753, 15060828, 15072828, 15084754, 15096605, 15108383, 15120087,
    15131718, 15143276, 15154762, 15166176, 15177517, 15188788, 15199987,
    15211115, 15222173, 15233161, 15244079, 15254927, 15265706, 15276417,
    15287059, 15297633, 15308139, 15318577, 15328948, 15339253, 15349491,
    15359663, 15369769, 15379809, 15389785, 15399695, 15409541, 15419323,
    15429041, 15438696, 15448287, 15457816, 15467282, 15476686, 15486027,
    15495308, 15504527, 15513685, 15522783, 15531820, 15540798, 15549716,
    15558574, 15567374, 15576115, 15584798, 15593422, 15601989, 15610499,
    15618952, 15627348, 15635687, 15643971, 15652198, 15660370, 15668487,
    15676549, 15684557, 15692510, 15700410, 15708256, 15716048, 15723788,
    15731475, 15739109, 15746692, 15754222, 15761701, 15769129, 15776506,
    15783833, 15791109, 15798335, 15805512, 15812639, 15819717, 15826746,
    15833727, 15840659, 15847544, 15854380, 15861170, 15867912, 15874608,
    15881257, 15887860, 15894416, 15900928, 15907393, 15913814, 15920190,
    15926521, 15932808, 15939051, 15945250, 15951406, 15957518, 15963588,
    15969615, 15975600, 15981542, 15987442, 15993301, 15999119, 16004895,
    16010631, 16016326, 16021981, 16027595, 16033170, 16038706, 16044202,
    16049659, 16055077, 16060456, 16065798, 16071101, 16076367, 16081594,
    16086785, 16091939, 16097055, 16102135, 16107179, 16112187, 16117158,
    16122094, 16126995, 16131860, 16136691, 16141487, 16146248, 16150975,
    16155668, 16160327, 16164952, 16169544, 16174103, 16178629, 16183123,
    16187583, 16192012, 16196408, 16200773, 16205106, 16209407, 16213678,
    16217917, 16222125, 16226303, 16230451, 16234568, 16238656, 16242713,
    16246741, 16250740, 16254709, 16258650, 16262561, 16266445, 16270299,
    16274126, 16277924, 16281695, 16285438, 16289154, 16292843, 16296504,
    16300139, 16303746, 16307328, 16310883, 16314412, 16317915, 16321392,
    16324844, 16328270, 16331671, 16335047, 16338398, 16341724, 16345026,
    16348303, 16351556, 16354785, 16357990, 16361172, 16364330, 16367465,
    16370576, 16373664, 16376730, 16379773, 16382793, 16385791, 16388766,
    16391720, 16394651, 16397561, 16400449, 16403316, 16406161, 16408985,
    16411789, 16414571, 16417332, 16420074, 16422794, 16425494, 16428175,
    16430835, 16433475, 16436096, 16438697, 16441278, 16443841, 16446384,
    16448908, 16451413, 16453900, 16456368, 16458817, 16461249, 16463661,
    16466056, 16468433, 16470792, 16473134, 16475457, 16477764, 16480053,
    16482325, 16484580, 16486818, 16489039, 16491243, 16493431, 16495602,
    16497757, 16499896, 16502019, 16504126, 16506216, 16508292, 16510351,
    16512395, 16514424, 16516437, 16518435, 16520418, 16522386, 16524339,
    16526278, 16528202, 16530111, 16532006, 16533886, 16535753, 16537605,
    16539443, 16541267, 16543078, 16544875, 16546658, 16548428, 16550184,
    16551927, 16553657, 16555374, 16557078, 16558768, 16560446, 16562112,
    16563764, 16565404, 16567032, 16568648, 16570251, 16571841, 16573420,
    16574987, 16576542, 16578085, 16579617, 16581136, 16582645, 16584141,
    16585627, 16587101, 16588564, 16590015, 16591456, 16592886, 16594305,
    16595713, 16597110, 16598497, 16599873, 16601238, 16602593, 16603938,
    16605273, 16606597, 16607912, 16609216, 16610511, 16611795, 16613070,
    16614335, 16615590, 16616836, 16618072, 16619299, 16620516, 16621725,
    16622923, 16624113, 16625294, 16626466, 16627628, 16628782, 16629927,
    16631063, 16632191, 16633310, 16634420, 16635522, 16636615, 16637700,
    16638777, 16639846, 16640906, 16641958, 16643002, 16644039, 16645067,
    16646087, 16647100, 16648104, 16649102, 16650091, 16651073, 16652047,
    16653014, 16653973, 16654926, 16655870, 16656808, 16657738, 16658661,
    16659578, 16660487, 16661389, 16662284, 16663172, 16664054, 16664929,
    16665797, 16666658, 16667513, 16668361, 16669203, 16670038, 16670867,
    16671689, 16672505, 16673315, 16674118, 16674916, 16675707, 16676492,
    16677272, 16678045, 16678812, 16679573, 16680329, 16681078, 16681822,
    16682560, 16683293, 16684020, 16684741, 16685457, 16686167, 16686872,
    16687571, 16688265, 16688954, 16689637, 16690315, 16690988, 16691655,
    16692318, 16692975, 16693627, 16694275, 16694917, 16695554, 16696187,
    16696814, 16697437, 16698055, 16698668, 16699276, 16699880, 16700479,
    16701074, 16701664, 16702249, 16702830, 16703406, 16703978, 16704545,
    16705109, 16705667, 16706222, 16706772, 16707318, 16707860, 16708397,
    16708930, 16709460, 16709985, 16710506, 16711023, 16711536, 16712045,
    16712551, 16713052, 16713549, 16714043, 16714533, 16715019, 16715501,
    16715979, 16716454, 16716925, 16717393, 16717857, 16718317, 16718774,
    16719227, 16719677, 16720123, 16720566, 16721005, 16721441, 16721874,
    16722303, 16722729, 16723152, 16723571, 16723987, 16724400, 16724810,
    16725216, 16725620, 16726020, 16726417, 16726811, 16727203, 16727591,
    16727976, 16728358, 16728737, 16729113, 16729486, 16729857, 16730224,
    16730589, 16730951, 16731310, 16731666, 16732020, 16732370, 16732718,
    16733064, 16733407, 16733747, 16734084, 16734419, 16734751, 16735081,
    16735408, 16735732, 16736054, 16736374, 16736691, 16737006, 16737318,
    16737627, 16737935, 16738240, 16738542, 16738843, 16739141, 16739436,
    16739730, 16740021, 16740310, 16740596, 16740880, 16741163, 16741443,
    16741720, 16741996, 16742270, 16742541, 16742810, 16743077, 16743343,
    16743606, 16743867, 16744126, 16744383, 16744638, 16744891, 16745142,
    16745391, 16745638, 16745883, 16746127, 16746368, 16746608, 16746846,
    16747082, 16747316, 16747548, 16747778, 16748007, 16748234, 16748459,
    16748683, 16748904, 16749124, 16749342, 16749559, 16749774, 16749987,
    16750199, 16750409, 16750617, 16750824, 16751029, 16751232, 16751434,
    16751634, 16751833, 16752030, 16752226, 16752420, 16752613, 16752804,
    16752994, 16753182, 16753369, 16753554, 16753738, 16753920, 16754101,
    16754281, 16754459, 16754636, 16754812, 16754986, 16755159, 16755330,
    16755500, 16755669, 16755836, 16756003, 16756167, 16756331, 16756493,
    16756654, 16756814, 16756973, 16757130, 16757286, 16757441, 16757595,
    16757747, 16757899, 16758049, 16758198, 16758346, 16758492, 16758638,
    16758782, 16758926, 16759068, 16759209, 16759349, 16759488, 16759626,
    16759762, 16759898, 16760033, 16760166, 16760299, 16760430, 16760561,
    16760690, 16760819, 16760946, 16761073, 16761198, 16761323, 16761446,
    16761569, 16761691, 16761811, 16761931, 16762050, 16762168, 16762285,
    16762401, 16762516, 16762630, 16762744, 16762856, 16762968, 16763079,
    16763189, 16763298, 16763406, 16763513, 16763620, 16763726, 16763831,
    16763935, 16764038, 16764140, 16764242, 16764343, 16764443, 16764542,
    16764641, 16764739, 16764836, 16764932, 16765028, 16765122, 16765216,
    16765310, 16765402, 16765494, 16765585, 16765676, 16765766, 16765855,
    16765943, 16766031, 16766118, 16766204, 16766290, 16766375, 16766459,
    16766542, 16766625, 16766708, 16766790, 16766871, 16766951, 16767031,
    16767110, 16767189, 16767267, 16767344, 16767421, 16767497, 16767573,
    16767648, 16767722, 16767796, 16767869, 16767942, 16768014, 16768086,
    16768157, 16768227, 16768297, 16768366, 16768435, 16768504, 16768571,
    16768639, 16768705, 16768771, 16768837, 16768902, 16768967, 16769031,
    16769095, 16769158, 16769221, 16769283, 16769345, 16769406, 16769467,
    16769527, 16769587, 16769646, 16769705, 16769763, 16769821, 16769879,
    16769936, 16769992, 16770049, 16770104, 16770160, 16770215, 16770269,
    16770323, 16770377, 16770430, 16770483, 16770535, 16770587, 16770639,
    16770690, 16770741, 16770791, 16770841, 16770891, 16770940, 16770989,
    16771037, 16771085, 16771133, 16771180, 16771227, 16771274, 16771320,
    16771366, 16771411, 16771456, 16771501, 16771546, 16771590, 16771634,
    16771677
  >>
\* s / q at the nodes
SByQTable ==
  <<
    16774425, 16774403, 16774381, 16774358, 16774336, 16774313, 16774291,
    16774268, 16774245, 16774221, 16774198, 16774174, 16774150, 16774126,
    16774102, 16774078, 16774053, 16774028, 16774003, 16773978, 16773953,
    16773927, 16773901, 16773875, 16773849, 16773823, 16773796, 16773769,
    16773742, 16773715, 16773688, 16773660, 16773632, 16773604, 16773576,
    16773547, 16773518, 16773489, 16773460, 16773431, 16773401, 16773371,
    16773341, 16773311, 16773280, 16773249, 16773218, 16773187, 16773155,
    16773123, 16773091, 16773059, 16773026, 16772993, 16772960, 16772927,
    16772893, 16772859, 16772825, 16772791, 16772756, 16772721, 16772686,
    16772650, 16772615, 16772579, 16772542, 16772506, 16772469, 16772431,
    16772394, 16772356, 16772318, 16772280, 16772241, 16772202, 16772163,
    16772123, 16772083, 16772043, 16772002, 16771961, 16771920, 16771879,
    16771837, 16771795, 16771752, 16771709, 16771666, 16771623, 16771579,
    16771535, 16771490, 16771445, 16771400, 16771354, 16771308, 16771262,
    16771215, 16771168, 16771121, 16771073, 16771025, 16770977, 16770928,
    16770878, 16770829, 16770779, 16770728, 16770677, 16770626, 16770574,
    16770522, 16770470, 16770417, 16770364, 16770310, 16770256, 16770201,
    16770146, 16770091, 16770035, 16769979, 16769922, 16769865, 16769807,
    16769749, 16769691, 16769632, 16769572, 16769512, 16769452, 16769391,
    16769330, 16769268, 16769206, 16769143, 16769080, 16769016, 16768952,
    16768887, 16768822, 16768756, 16768690, 16768623, 16768556, 16768488,
    16768419, 16768350, 16768281, 16768211, 16768140, 16768069, 16767997,
    16767925, 16767852, 16767779, 16767705, 16767631, 16767556, 16767480,
    16767404, 16767327, 16767249, 16767171, 16767092, 16767013, 16766933,
    16766853, 16766771, 16766689, 16766607, 16766524, 16766440, 16766356,
    16766271, 16766185, 16766098, 16766011, 16765924, 16765835, 16765746,
    16765656, 16765566, 16765474, 16765382, 16765290, 16765196, 16765102,
    16765007, 16764911, 16764815, 16764718, 16764620, 16764521, 16764422,
    16764322, 16764221, 16764119, 16764016, 16763913, 16763809, 16763704,
    16763598, 16763491, 16763384, 16763275, 16763166, 16763056, 16762945,
    16762833, 16762721, 16762607, 16762493, 16762378, 16762261, 16762144,
    16762026, 16761907, 16761787, 16761667, 16761545, 16761422, 16761298,
    16761174, 16761048, 16760922, 16760794, 16760665, 16760536, 16760405,
    16760274, 16760141, 16760007, 16759872, 16759737, 16759600, 16759462,
    16759323, 16759183, 16759042, 16758899, 16758756, 16758611, 16758466,
    16758319, 16758171, 16758022, 16757872, 16757720, 16757568, 16757414,
    16757259, 16757103, 16756945, 16756787, 16756627, 16756466, 16756303,
    16756139, 16755975, 16755808, 16755641, 16755472, 16755302, 16755130,
    16754957, 16754783, 16754608, 16754431, 16754252, 16754073, 16753892,
    16753709, 16753525, 16753340, 16753153, 16752965, 16752775, 16752584,
    16752391, 16752197, 16752001, 16751804, 16751605, 16751405, 16751203,
    16750999, 16750794, 16750588, 16750379, 16750169, 16749958, 16749745,
    16749530, 16749313, 16749095, 16748875, 16748653, 16748430, 16748205,
    16747978, 16747749, 16747519, 16747287, 16747053, 16746817, 16746579,
    16746339, 16746098, 16745855, 16745610, 16745362, 16745113, 16744862,
    16744610, 16744355, 16744098, 16743839, 16743578, 16743315, 16743050,
    16742783, 16742514, 16742243, 16741969, 16741694, 16741416, 16741136,
    16740854, 16740570, 16740284, 16739995, 16739704, 16739411, 16739116,
    16738818, 16738518, 16738216, 16737911, 16737604, 16737295, 16736983,
    16736669, 16736352, 16736033, 16735711, 16735387, 16735060, 16734731,
    16734399, 16734065, 16733728, 16733388, 16733046, 16732701, 16732353,
    16732003, 16731650, 16731294, 16730936, 16730575, 16730211, 16729844,
    16729474, 16729101, 16728726, 16728347, 16727966, 16727581, 16727194,
    16726804, 16726410, 16726014, 16725614, 16725212, 16724806, 16724397,
    16723985, 16723570, 16723151, 16722729, 16722304, 16721876, 16721444,
    16721009, 16720571, 16720129, 16719684, 16719236, 16718783, 16718328,
    16717869, 16717406, 16716940, 16716470, 16715996, 16715519, 16715038,
    16714553, 16714065, 16713573, 16713077, 16712577, 16712073, 16711566,
    16711054, 16710539, 16710019, 16709496, 16708968, 16708437, 16707901,
    16707361, 16706817, 16706269, 16705716, 16705160, 16704598, 16704033,
    16703463, 16702889, 16702310, 16701727, 16701140, 16700548, 16699951,
    16699350, 16698744, 16698133, 16697518, 16696898, 16696273, 16695643,
    16695008, 16694369, 16693725, 16693075, 16692421, 16691761, 16691097,
    16690427, 16689752, 16689072, 16688387, 16687697, 16687001, 16686300,
    16685593, 16684881, 16684164, 16683441, 16682712, 16681978, 16681238,
    16680492, 16679741, 16678984, 16678221, 16677452, 16676678, 16675897,
    16675111, 16674318, 16673519, 16672714, 16671903, 16671086, 16670262,
    16669433, 16668596, 16667754, 16666904, 16666049, 16665187, 16664318,
    16663442, 16662560, 16661671, 16660775, 16659873, 16658963, 16658047,
    16657123, 16656193, 16655255, 16654310, 16653358, 16652398, 16651432,
    16650458, 16649476, 16648487, 16647490, 16646486, 16645474, 16644454,
    16643427, 16642392, 16641348, 16640297, 16639238, 16638171, 16637095,
    16636012, 16634920, 16633820, 16632711, 16631594, 16630469, 16629335,
    16628192, 16627041, 16625880, 16624711, 16623533, 16622347, 16621151,
    16619946, 16618732, 16617508, 16616276, 16615034, 16613782, 16612521,
    16611251, 16609971, 16608681, 16607381, 16606072, 16604753, 16603423,
    16602084, 16600734, 16599374, 16598004, 16596624, 16595233, 16593832,
    16592420, 16590997, 16589564, 16588119, 16586664, 16585198, 16583721,
    16582233, 16580733, 16579222, 16577700, 16576167, 16574621, 16573065,
    16571496, 16569916, 16568323, 16566719, 16565103, 16563474, 16561834,
    16560181, 16558515, 16556838, 16555147, 16553444, 16551728, 16549999,
    16548258, 16546503, 16544735, 16542954, 16541160, 16539352, 16537530,
    16535695, 16533847, 16531984, 16530108, 16528218, 16526313, 16524395,
    16522462, 16520514, 16518553, 16516576, 16514585, 16512579, 16510558,
    16508522, 16506471, 16504405, 16502324, 16500227, 16498114, 16495986,
    16493842, 16491683, 16489507, 16487315, 16485107, 16482883, 16480642,
    16478384, 16476110, 16473820, 16471512, 16469187, 16466846, 16464487,
    16462110, 16459716, 16457305, 16454876, 16452429, 16449964, 16447481,
    16444979, 16442460, 16439922, 16437365, 16434790, 16432196, 16429583,
    16426951, 16424299, 16421628, 16418938, 16416228, 16413499, 16410749,
    16407980, 16405190, 16402381, 16399550, 16396700, 16393828, 16390936,
    16388023, 16385088, 16382133, 16379156, 16376157, 16373137, 16370095,
    16367032, 16363946, 16360838, 16357707, 16354554, 16351378, 16348180,
    16344958, 16341714, 16338446, 16335155, 16331840, 16328501, 16325139,
    16321753, 16318342, 16314907, 16311448, 16307964, 16304455, 16300921,
    16297362, 16293778, 16290168, 16286533, 16282872, 16279185, 16275472,
    16271733, 16267967, 16264175, 16260356, 16256510, 16252637, 16248737,
    16244810, 16240855, 16236872, 16232861, 16228822, 16224755, 16220659,
    16216535, 16212382, 16208200, 16203989, 16199749, 16195479, 16191180,
    16186850, 16182491, 16178101, 16173682, 16169231, 16164750, 16160238,
    16155695, 16151120, 16146514, 16141876, 16137207, 16132505, 16127772,
    16123006, 16118207, 16113376, 16108511, 16103614, 16098683, 16093718,
    16088720, 16083688, 16078622, 16073522, 16068387, 16063217, 16058013,
    16052773, 16047498, 16042188, 16036842, 16031460, 16026043, 16020588,
    16015098, 16009571, 16004007, 15998406, 15992768, 15987092, 15981378,
    15975627, 15969838, 15964011, 15958145, 15952240, 15946297, 15940314,
    15934293, 15928231, 15922131, 15915990, 15909809, 15903588, 15897327,
    15891025, 15884681, 15878297, 15871872, 15865405, 15858896, 15852346,
    15845753, 15839118, 15832441, 15825720, 15818957, 15812151, 15805301,
    15798408, 15791471, 15784490, 15777464, 15770395, 15763281, 15756122,
    15748918, 15741668, 15734374, 15727033, 15719647, 15712215, 15704737,
    15697212, 15689641, 15682022, 15674357, 15666644, 15658884, 15651077,
    15643221, 15635317, 15627365, 15619365, 15611316, 15603218, 15595070,
    15586874, 15578628, 15570333, 15561987, 15553592, 15545146, 15536650,
    15528103, 15519505, 15510856, 15502156, 15493405, 15484602, 15475747,
    15466840, 15457881, 15448869, 15439805, 15430688, 15421518, 15412295,
    15403019, 15393689, 15384305, 15374868, 15365377, 15355831, 15346231,
    15336576, 15326867, 15317102, 15307283, 15297408, 15287478, 15277492,
    15267451, 15257353, 15247200, 15236990, 15226723, 15216400, 15206021,
    15195584, 15185090, 15174540, 15163931, 15153265, 15142542, 15131761,
    15120921, 15110024, 15099068, 15088054, 15076982, 15065851, 15054661,
    15043412, 15032104, 15020736, 15009310, 14997824, 14986278, 14974673,
    14963008, 14951283, 14939498, 14927653, 14915748, 14903782, 14891756,
    14879669, 14867522, 14855314, 14843045, 14830715, 14818324, 14805872,
    14793358, 14780784, 14768148, 14755451, 14742692, 14729871, 14716989,
    14704045, 14691040, 14677972, 14664843, 14651652, 14638399, 14625083,
    14611706, 14598267, 14584765, 14571201, 14557575, 14543887, 14530136,
    14516323, 14502448, 14488510, 14474511, 14460448, 14446324, 14432137,
    14417887, 14403575, 14389201, 14374765, 14360266, 14345705, 14331081,
    14316396, 14301648, 14286837, 14271965, 14257030, 14242034, 14226975,
    14211855, 14196672, 14181427, 14166121, 14150753, 14135323, 14119832,
    14104279, 14088664, 14072989, 14057252, 14041453, 14025594, 14009673,
    13993692, 13977650, 13961547, 13945384, 13929160, 13912876, 13896531,
    13880127, 13863663, 13847138, 13830555, 13813911, 13797208, 13780447,
    13763626, 13746746, 13729807, 13712810, 13695754, 13678641, 13661469,
    13644240, 13626952, 13609608, 13592206, 13574747, 13557231, 13539659,
    13522030, 13504345, 13486604, 13468808, 13450956, 13433048, 13415086,
    13397069, 13378997, 13360871, 13342691, 13324457, 13306170, 13287829,
    13269435, 13250989, 13232490, 13213939, 13195337, 13176682, 13157977,
    13139220, 13120413, 13101556, 13082648, 13063691, 13044684, 13025628,
    13006523, 12987370, 12968169, 12948919, 12929623, 12910279, 12890889,
    12871452, 12851969, 12832440, 12812866, 12793247, 12773583, 12753875,
    12734123, 12714328, 12694489, 12674608, 12654684, 12634718, 12614711,
    12594662, 12574573, 12554443, 12534274, 12514064, 12493815, 12473528,
    12453202, 12432838, 12412437, 12391999, 12371523, 12351012, 12330465,
    12309882, 12289264, 12268612, 12247926, 12227206, 12206452, 12185666,
    12164848, 12143998, 12123116, 12102203, 12081260, 12060287, 12039284,
    12018252, 11997191, 11976102, 11954985, 11933841, 11912670, 11891472,
    11870249, 11849001, 11827727, 11806429, 11785107, 11763762, 11742393,
    11721002, 11699589, 11678154, 11656698, 11635221, 11613725, 11592209,
    11570673, 11549119, 11527547, 11505956, 11484349, 11462725, 11441085,
    11419429, 11397758, 11376072, 11354372, 11332657, 11310930, 11289190,
    11267438, 11245673, 11223898, 11202111, 11180314, 11158508, 11136692,
    11114867, 11093034, 11071193, 11049344, 11027488, 11005627, 10983759,
    10961885, 10940007, 10918124, 10896238, 10874347, 10852454, 10830558,
    10808660, 10786760, 10764860, 10742958, 10721057, 10699156, 10677255,
    10655356, 10633458, 10611563, 10589671, 10567781, 10545895, 10524013,
    10502136, 10480263, 10458396, 10436535, 10414681, 10392833, 10370992,
    10349159, 10327334, 10305518, 10283710, 10261913, 10240125, 10218347,
    10196580, 10174825, 10153081, 10131349, 10109630, 10087923, 10066230,
    10044551, 10022885, 10001235, 9979599, 9957979, 9936374, 9914786, 9893215,
    9871660, 9850123, 9828604, 9807103, 9785620, 9764156, 9742712, 9721288,
    9699883, 9678500, 9657137, 9635795, 9614475, 9593176, 9571901, 9550647,
    9529417, 9508210, 9487027, 9465868, 9444734, 9423624, 9402539, 9381480,
    9360447, 9339439, 9318458, 9297504, 9276577, 9255677, 9234805, 9213961,
    9193145, 9172358, 9151600, 9130871, 9110171, 9089501, 9068862, 9048253,
    9027674, 9007126, 8986610, 8966125, 8945671, 8925250, 8904861, 8884505,
    8864181, 8843891, 8823633, 8803410, 8783220, 8763064, 8742942, 8722855,
    8702803, 8682785, 8662803, 8642856, 8622945, 8603070, 8583230, 8563427,
    8543661, 8523931, 8504238, 8484582, 8464964, 8445383, 8425839, 8406334,
    8386866, 8367437, 8348046, 8328694, 8309380, 8290105, 8270870, 8251673,
    8232516, 8213399, 8194321, 8175283, 8156285, 8137327, 8118409, 8099532,
    8080696, 8061900, 8043145, 8024431, 8005758, 7987126, 7968535, 7949986,
    7931479, 7913013, 7894589, 7876207, 7857866, 7839568, 7821312, 7803099,
    7784927, 7766798, 7748712, 7730668, 7712667, 7694709, 7676794, 7658922,
    7641092, 7623306, 7605563, 7587863, 7570207, 7552593, 7535024, 7517497,
    7500015, 7482575, 7465180, 7447828, 7430520, 7413255, 7396035, 7378858,
    7361725, 7344636, 7327591, 7310590, 7293633, 7276720, 7259851, 7243026,
    7226246, 7209509, 7192816, 7176168, 7159564, 7143004, 7126488, 7110016,
    7093589, 7077206, 7060867, 7044572, 7028321, 7012115, 6995952, 6979834,
    6963760, 6947731, 6931745, 6915804, 6899906, 6884053, 6868244, 6852479,
    6836758, 6821080, 6805447, 6789858, 6774313, 6758812, 6743355, 6727941,
    6712571, 6697245, 6681963, 6666725, 6651530, 6636379, 6621271, 6606207,
    6591186, 6576209, 6561275, 6546385, 6531538, 6516734, 6501974, 6487256,
    6472582, 6457950, 6443362, 6428817, 6414314, 6399854, 6385437, 6371063,
    6356732, 6342442, 6328196, 6313992, 6299830, 6285710, 6271633, 6257598,
    6243605, 6229654, 6215745, 6201878, 6188053, 6174269, 6160527, 6146827,
    6133168, 6119551, 6105975, 6092440, 6078946, 6065494, 6052083, 6038712,
    6025383, 6012094, 5998846, 5985638, 5972471, 5959345, 5946259, 5933213,
    5920207, 5907242, 5894316, 5881430, 5868585, 5855779, 5843012, 5830286,
    5817598, 5804950, 5792342, 5779772, 5767242, 5754751, 5742298, 5729885,
    5717510, 5705173, 5692876, 5680617, 5668396, 5656213, 5644069, 5631962,
    5619894, 5607863, 5595870, 5583915, 5571998, 5560117, 5548275, 5536469,
    5524701, 5512970, 5501275, 5489618, 5477997, 5466413, 5454866, 5443355,
    5431880, 5420442, 5409040, 5397674, 5386344, 5375050, 5363791, 5352568,
    5341381, 5330229, 5319112, 5308031, 5296985, 5285974, 5274998, 5264056,
    5253150, 5242278, 5231440, 5220637, 5209869, 5199134, 5188434, 5177767,
    5167135, 5156536, 5145971, 5135439, 5124941, 5114477, 5104045, 5093647,
    5083282, 5072950, 5062651, 5052384, 5042150, 5031949, 5021780, 5011644,
    5001540, 4991467, 4981427, 4971419, 4961443, 4951498, 4941585, 4931704,
    4921854, 4912035, 4902248, 4892491, 4882766, 4873071, 4863408, 4853775,
    4844172, 4834601, 4825059, 4815548, 4806067, 4796616, 4787195, 4777804,
    4768443, 4759112, 4749810, 4740537, 4731294, 4722081, 4712896, 4703741,
    4694614, 4685517, 4676448, 4667408, 4658396, 4649414, 4640459, 4631533,
    4622635, 4613765, 4604923, 4596109, 4587323, 4578564, 4569834, 4561130,
    4552454, 4543806, 4535185, 4526590, 4518023, 4509483, 4500970, 4492483,
    4484024, 4475590, 4467184, 4458803, 4450449, 4442121, 4433819, 4425544,
    4417294, 4409070, 4400871, 4392699, 4384552, 4376430, 4368334, 4360263,
    4352217, 4344196, 4336201, 4328230, 4320284, 4312363, 4304466, 4296595,
    4288747, 4280924, 4273125, 4265351, 4257600, 4249874, 4242171, 4234493,
    4226838, 4219207, 4211599, 4204015, 4196454, 4188917, 4181403, 4173912,
    4166444, 4159000, 4151578, 4144179, 4136802, 4129449, 4122118, 4114809,
    4107523, 4100260, 4093018, 4085799, 4078601, 4071426, 4064273, 4057142,
    4050032, 4042944, 4035878, 4028833, 4021809, 4014807, 4007827, 4000867,
    3993929, 3987011, 3980115, 3973240, 3966385, 3959551, 3952738, 3945945,
    3939173, 3932422, 3925690, 3918979, 3912289, 3905618, 3898967, 3892337,
    3885726, 3879135, 3872564, 3866013, 3859481, 3852969, 3846476, 3840003,
    3833549, 3827114, 3820699, 3814303, 3807925, 3801567, 3795227, 3788907,
    3782605, 3776322, 3770057, 3763811, 3757584, 3751375, 3745184, 3739011,
    3732857, 3726721, 3720603, 3714503, 3708421, 3702357, 3696310, 3690282,
    3684271, 3678278, 3672302, 3666343, 3660403, 3654479, 3648573, 3642684,
    3636812, 3630957, 3625119, 3619299, 3613495, 3607708, 3601938, 3596184,
    3590447, 3584727, 3579023, 3573336, 3567665, 3562011, 3556373, 3550751,
    3545145, 3539555, 3533981, 3528424, 3522882, 3517356, 3511846, 3506352,
    3500873, 3495410, 3489963, 3484531, 3479115, 3473714, 3468328, 3462958,
    3457602, 3452263, 3446938, 3441628, 3436333, 3431053, 3425789, 3420539,
    3415303, 3410083, 3404877, 3399686, 3394509, 3389347, 3384199, 3379066,
    3373947, 3368843, 3363753, 3358676, 3353615, 3348567, 3343533, 3338513,
    3333507, 3328515, 3323537, 3318573, 3313622, 3308685, 3303762, 3298852,
    3293956, 3289074, 3284205, 3279349, 3274506, 3269677, 3264861, 3260058,
    3255269, 3250492, 3245729, 3240979, 3236241, 3231517, 3226805, 3222106,
    3217420, 3212747, 3208086, 3203438, 3198803, 3194180, 3189569, 3184971,
    3180386, 3175812, 3171252, 3166703, 3162167, 3157642, 3153130, 3148630,
    3144142, 3139666, 3135202, 3130750, 3126310, 3121882, 3117465, 3113061,
    3108667, 3104286, 3099916, 3095558, 3091211, 3086876, 3082553, 3078240,
    3073939, 3069650, 3065371, 3061104, 3056849, 3052604, 3048370, 3044148,
    3039937, 3035736, 3031547, 3027368, 3023201, 3019044, 3014898, 3010763,
    3006639, 3002525, 2998422, 2994330, 2990248, 2986177, 2982116, 2978066,
    2974026, 2969997, 2965978, 2961969, 2957971, 2953983, 2950005, 2946037,
    2942080, 2938132, 2934195, 2930268, 2926351, 2922443, 2918546, 2914658,
    2910781, 2906913, 2903055, 2899207, 2895368, 2891540, 2887721, 2883911,
    2880111, 2876321, 2872540, 2868769, 2865007, 2861255, 2857512, 2853778,
    2850054, 2846339, 2842633, 2838937, 2835249, 2831571, 2827902, 2824243,
    2820592, 2816950, 2813317, 2809694, 2806079, 2802473, 2798876, 2795288,
    2791709, 2788138, 2784577, 2781024, 2777479, 2773944, 2770417, 2766899,
    2763389, 2759888, 2756395, 2752911, 2749436, 2745969, 2742510, 2739059,
    2735617, 2732184, 2728758, 2725341, 2721933, 2718532, 2715140, 2711755,
    2708379, 2705011, 2701651, 2698300, 2694956, 2691620, 2688292, 2684972,
    2681660, 2678356, 2675060, 2671771, 2668491, 2665218, 2661953, 2658696,
    2655446, 2652204, 2648970, 2645744, 2642525, 2639313, 2636109, 2632913,
    2629724, 2626543, 2623369, 2620203, 2617044, 2613892, 2610748, 2607611,
    2604481, 2601359, 2598244, 2595136, 2592036, 2588942, 2585856, 2582777,
    2579705, 2576640, 2573582, 2570531, 2567488, 2564451, 2561421, 2558398,
    2555383, 2552374, 2549372, 2546376, 2543388, 2540407, 2537432, 2534464,
    2531503, 2528548, 2525601, 2522660, 2519725, 2516798, 2513877, 2510962,
    2508054, 2505153, 2502258, 2499370, 2496488, 2493613, 2490744, 2487882,
    2485026, 2482176, 2479333, 2476496, 2473666, 2470842, 2468024, 2465212,
    2462407, 2459608, 2456815, 2454028, 2451248, 2448473, 2445705, 2442943,
    2440187, 2437437, 2434693, 2431956, 2429224, 2426498, 2423778, 2421064,
    2418356, 2415654, 2412958, 2410268, 2407584, 2404905, 2402233, 2399566,
    2396905, 2394250, 2391600, 2388957, 2386319, 2383686, 2381060, 2378439,
    2375824, 2373214, 2370610, 2368012, 2365419, 2362832, 2360250, 2357674,
    2355103, 2352538, 2349978, 2347424, 2344875, 2342332, 2339794, 2337262,
    2334735, 2332213, 2329696, 2327185, 2324680, 2322179, 2319684, 2317194,
    2314710, 2312230, 2309756, 2307287, 2304823, 2302365, 2299911, 2297463,
    2295020, 2292581, 2290148, 2287721, 2285298, 2282880, 2280467, 2278059,
    2275657, 2273259, 2270866, 2268478, 2266095, 2263717, 2261344, 2258976,
    2256613, 2254254, 2251901, 2249552, 2247208, 2244869, 2242535, 2240205,
    2237881, 2235561, 2233246, 2230935, 2228629, 2226328, 2224032, 2221740,
    2219453, 2217170, 2214893, 2212619, 2210351, 2208087, 2205827, 2203573,
    2201322, 2199076, 2196835, 2194598, 2192366, 2190138, 2187915, 2185696,
    2183482, 2181272, 2179066, 2176865, 2174668, 2172476, 2170288, 2168104,
    2165925, 2163750, 2161579, 2159413, 2157251, 2155093, 2152939, 2150790,
    2148645, 2146504, 2144367, 2142235, 2140107, 2137983, 2135863, 2133747,
    2131635, 2129528, 2127424, 2125325, 2123230, 2121139, 2119052, 2116969,
    2114890, 2112815, 2110745, 2108678, 2106615, 2104556, 2102501, 2100451,
    2098404, 2096361, 2094322, 2092287
  >>
\* s * (1 - s) at the nodes
GradSTable ==
  <<
    5581, 5624, 5668, 5713, 5758, 5803, 5848, 5894, 5940, 5987, 6034, 6081,
    6129, 6177, 6225, 6274, 6323, 6373, 6423, 6473, 6524, 6575, 6626, 6678,
    6731, 6783, 6836, 6890, 6944, 6998, 7053, 7109, 7164, 7220, 7277, 7334,
    7392, 7449, 7508, 7567, 7626, 7686, 7746, 7807, 7868, 7929, 7992, 8054,
    8117, 8181, 8245, 8310, 8375, 8440, 8506, 8573, 8640, 8708, 8776, 8845,
    8914, 8984, 9054, 9125, 9197, 9269, 9342, 9415, 9489, 9563, 9638, 9713,
    9789, 9866, 9943, 10021, 10100, 10179, 10259, 10339, 10420, 10502, 10584,
    10667, 10750, 10834, 10919, 11005, 11091, 11178, 11266, 11354, 11443,
    11532, 11623, 11714, 11805, 11898, 11991, 12085, 12180, 12275, 12371,
    12468, 12566, 12664, 12763, 12863, 12964, 13065, 13168, 13271, 13375,
    13479, 13585, 13691, 13799, 13907, 14016, 14125, 14236, 14347, 14460,
    14573, 14687, 14802, 14918, 15035, 15152, 15271, 15391, 15511, 15632,
    15755, 15878, 16002, 16128, 16254, 16381, 16509, 16639, 16769, 16900,
    17032, 17166, 17300, 17435, 17572, 17709, 17848, 17988, 18129, 18270,
    18413, 18557, 18703, 18849, 18997, 19145, 19295, 19446, 19598, 19752,
    19906, 20062, 20219, 20377, 20536, 20697, 20859, 21022, 21187, 21352,
    21519, 21688, 21857, 22028, 22201, 22374, 22549, 22726, 22904, 23083,
    23263, 23445, 23629, 23813, 24000, 24187, 24376, 24567, 24759, 24953,
    25148, 25344, 25543, 25742, 25944, 26146, 26351, 26557, 26765, 26974,
    27185, 27397, 27611, 27827, 28045, 28264, 28485, 28708, 28932, 29158,
    29386, 29616, 29847, 30080, 30315, 30552, 30791, 31032, 31274, 31518,
    31765, 32013, 32263, 32515, 32769, 33025, 33283, 33543, 33805, 34069,
    34335, 34603, 34874, 35146, 35421, 35697, 35976, 36257, 36540, 36825,
    37113, 37403, 37695, 37989, 38286, 38584, 38886, 39189, 39495, 39803,
    40114, 40427, 40743, 41061, 41381, 41704, 42030, 42358, 42688, 43021,
    43357, 43695, 44036, 44380, 44726, 45075, 45426, 45781, 46138, 46497,
    46860, 47226, 47594, 47965, 48339, 48716, 49096, 49479, 49864, 50253,
    50645, 51040, 51437, 51838, 52242, 52650, 53060, 53473, 53890, 54310,
    54733, 55160, 55589, 56022, 56459, 56899, 57342, 57788, 58239, 58692,
    59149, 59610, 60074, 60542, 61013, 61488, 61967, 62449, 62935, 63425,
    63919, 64416, 64918, 65423, 65932, 66445, 66962, 67483, 68008, 68537,
    69070, 69607, 70148, 70694, 71244, 71798, 72356, 72918, 73485, 74056,
    74632, 75212, 75797, 76386, 76979, 77577, 78180, 78788, 79400, 80016,
    80638, 81264, 81895, 82531, 83172, 83818, 84469, 85124, 85785, 86451,
    87122, 87798, 88479, 89166, 89858, 90555, 91257, 91965, 92678, 93397,
    94121, 94851, 95587, 96328, 97074, 97827, 98585, 99349, 100119, 100895,
    101676, 102464, 103258, 104057, 104863, 105675, 106494, 107318, 108149,
    108986, 109829, 110679, 111536, 112399, 113268, 114145, 115028, 115917,
    116814, 117717, 118627, 119544, 120468, 121399, 122337, 123282, 124235,
    125195, 126162, 127136, 128118, 129107, 130104, 131108, 132120, 133140,
    134167, 135203, 136246, 137297, 138355, 139422, 140497, 141581, 142672,
    143772, 144880, 145996, 147121, 148254, 149396, 150546, 151706, 152874,
    154050, 155236, 156431, 157634, 158847, 160069, 161300, 162540, 163790,
    165049, 166318, 167596, 168883, 170181, 171488, 172805, 174132, 175469,
    176816, 178173, 179540, 180917, 182305, 183703, 185112, 186531, 187961,
    189401, 190853, 192315, 193788, 195272, 196767, 198274, 199791, 201320,
    202860, 204412, 205976, 207551, 209137, 210736, 212346, 213969, 215603,
    217250, 218909, 220580, 222263, 223960, 225668, 227389, 229124, 230870,
    232630, 234403, 236189, 237988, 239801, 241626, 243466, 245318, 247185,
    249065, 250959, 252867, 254789, 256726, 258676, 260641, 262620, 264614,
    266622, 268645, 270683, 272736, 274804, 276887, 278985, 281098, 283227,
    285372, 287532, 289708, 291900, 294107, 296331, 298571, 300827, 303100,
    305389, 307694, 310017, 312356, 314712, 317085, 319476, 321883, 324308,
    326751, 329211, 331689, 334185, 336698, 339230, 341780, 344348, 346935,
    349540, 352164, 354806, 357468, 360149, 362848, 365567, 368306, 371064,
    373841, 376639, 379456, 382293, 385150, 388028, 390926, 393845, 396784,
    399744, 402725, 405727, 408750, 411795, 414860, 417948, 421057, 424188,
    427341, 430516, 433713, 436933, 440175, 443440, 446727, 450038, 453371,
    456728, 460108, 463511, 466938, 470389, 473864, 477363, 480885, 484433,
    488004, 491600, 495221, 498867, 502538, 506234, 509955, 513702, 517474,
    521272, 525096, 528946, 532822, 536725, 540654, 544609, 548592, 552601,
    556637, 560701, 564792, 568910, 573056, 577230, 581432, 585662, 589920,
    594207, 598522, 602866, 607238, 611640, 616071, 620531, 625021, 629540,
    634089, 638668, 643277, 647917, 652587, 657287, 662018, 666779, 671572,
    676396, 681251, 686138, 691056, 696006, 700988, 706002, 711048, 716127,
    721238, 726382, 731558, 736768, 742010, 747286, 752596, 757939, 763315,
    768726, 774170, 779649, 785162, 790709, 796291, 801908, 807560, 813247,
    818969, 824726, 830519, 836348, 842212, 848112, 854048, 860021, 866029,
    872075, 878157, 884275, 890431, 896624, 902853, 909120, 915425, 921767,
    928147, 934565, 941020, 947514, 954046, 960617, 967225, 973873, 980559,
    987284, 994048, 1000851, 1007694, 1014576, 1021497, 1028457, 1035458,
    1042498, 1049578, 1056698, 1063859, 1071059, 1078300, 1085581, 1092903,
    1100266, 1107669, 1115113, 1122598, 1130124, 1137691, 1145299, 1152948,
    1160639, 1168371, 1176145, 1183961, 1191818, 1199716, 1207657, 1215639,
    1223664, 1231730, 1239839, 1247989, 1256182, 1264417, 1272694, 1281014,
    1289376, 1297780, 1306227, 1314716, 1323248, 1331822, 1340439, 1349099,
    1357801, 1366546, 1375333, 1384163, 1393036, 1401951, 1410909, 1419910,
    1428953, 1438040, 1447168, 1456339, 1465553, 1474810, 1484109, 1493450,
    1502834, 1512260, 1521729, 1531240, 1540794, 1550389, 1560027, 1569707,
    1579429, 1589192, 1598998, 1608846, 1618735, 1628665, 1638638, 1648651,
    1658706, 1668802, 1678940, 1689118, 1699337, 1709596, 1719897, 1730237,
    1740618, 1751039, 1761500, 1772001, 1782541, 1793121, 1803740, 1814398,
    1825095, 1835831, 1846605, 1857417, 1868268, 1879156, 1890082, 1901045,
    1912046, 1923083, 1934157, 1945268, 1956414, 1967597, 1978815, 1990068,
    2001356, 2012679, 2024037, 2035428, 2046854, 2058312, 2069804, 2081329,
    2092887, 2104476, 2116097, 2127750, 2139434, 2151148, 2162892, 2174667,
    2186471, 2198304, 2210166, 2222056, 2233974, 2245919, 2257892, 2269891,
    2281915, 2293966, 2306042, 2318142, 2330267, 2342415, 2354586, 2366780,
    2378997, 2391235, 2403494, 2415774, 2428073, 2440393, 2452731, 2465088,
    2477462, 2489854, 2502262, 2514687, 2527127, 2539581, 2552050, 2564533,
    2577028, 2589536, 2602055, 2614586, 2627127, 2639677, 2652237, 2664805,
    2677381, 2689963, 2702552, 2715146, 2727745, 2740348, 2752955, 2765564,
    2778175, 2790787, 2803399, 2816011, 2828622, 2841231, 2853837, 2866439,
    2879037, 2891630, 2904216, 2916796, 2929368, 2941932, 2954486, 2967031,
    2979564, 2992085, 3004593, 3017088, 3029568, 3042032, 3054481, 3066912,
    3079325, 3091719, 3104093, 3116446, 3128777, 3141086, 3153371, 3165631,
    3177866, 3190075, 3202256, 3214408, 3226532, 3238625, 3250686, 3262716,
    3274712, 3286674, 3298601, 3310492, 3322345, 3334160, 3345937, 3357673,
    3369367, 3381020, 3392630, 3404195, 3415715, 3427189, 3438616, 3449995,
    3461324, 3472603, 3483831, 3495007, 3506129, 3517197, 3528210, 3539166,
    3550065, 3560905, 3571686, 3582406, 3593065, 3603662, 3614195, 3624663,
    3635066, 3645403, 3655671, 3665872, 3676002, 3686062, 3696051, 3705966,
    3715809, 3725576, 3735268, 3744884, 3754422, 3763881, 3773261, 3782561,
    3791779, 3800914, 3809967, 3818935, 3827817, 3836614, 3845323, 3853944,
    3862477, 3870919, 3879271, 3887531, 3895698, 3903772, 3911751, 3919636,
    3927424, 3935115, 3942708, 3950203, 3957598, 3964893, 3972086, 3979178,
    3986167, 3993052, 3999833, 4006509, 4013079, 4019543, 4025899, 4032147,
    4038287, 4044317, 4050236, 4056045, 4061743, 4067328, 4072800, 4078159,
    4083403, 4088533, 4093548, 4098447, 4103229, 4107894, 4112441, 4116871,
    4121181, 4125373, 4129445, 4133396, 4137227, 4140937, 4144525, 4147992,
    4151336, 4154557, 4157655, 4160629, 4163480, 4166206, 4168808, 4171285,
    4173636, 4175862, 4177963, 4179937, 4181785, 4183507, 4185101, 4186570,
    4187911, 4189124, 4190211, 4191170, 4192001, 4192704, 4193280, 4193728,
    4194048, 4194240, 4194304, 4194240, 4194048, 4193728, 4193280, 4192704,
    4192001, 4191170, 4190211, 4189124, 4187911, 4186570, 4185101, 4183507,
    4181785, 4179937, 4177963, 4175862, 4173636, 4171285, 4168808, 4166206,
    4163480, 4160629, 4157655, 4154557, 4151336, 4147992, 4144525, 4140937,
    4137227, 4133396, 4129445, 4125373, 4121181, 4116871, 4112441, 4107894,
    4103229, 4098447, 4093548, 4088533, 4083403, 4078159, 4072800, 4067328,
    4061743, 4056045, 4050236, 4044317, 4038287, 4032147, 4025899, 4019543,
    4013079, 4006509, 3999833, 3993052, 3986167, 3979178, 3972086, 3964893,
    3957598, 3950203, 3942708, 3935115, 3927424, 3919636, 3911751, 3903772,
    3895698, 3887531, 3879271, 3870919, 3862477, 3853944, 3845323, 3836614,
    3827817, 3818935, 3809967, 3800914, 3791779, 3782561, 3773261, 3763881,
    3754422, 3744884, 3735268, 3725576, 3715809, 3705966, 3696051, 3686062,
    3676002, 3665872, 3655671, 3645403, 3635066, 3624663, 3614195, 3603662,
    3593065, 3582406, 3571686, 3560905, 3550065, 3539166, 3528210, 3517197,
    3506129, 3495007, 3483831, 3472603, 3461324, 3449995, 3438616, 3427189,
    3415715, 3404195, 3392630, 3381020, 3369367, 3357673, 3345937, 3334160,
    3322345, 3310492, 3298601, 3286674, 3274712, 3262716, 3250686, 3238625,
    3226532, 3214408, 3202256, 3190075, 3177866, 3165631, 3153371, 3141086,
    3128777, 3116446, 3104093, 3091719, 3079325, 3066912, 3054481, 3042032,
    3029568, 3017088, 3004593, 2992085, 2979564, 2967031, 2954486, 2941932,
    2929368, 2916796, 2904216, 2891630, 2879037, 2866439, 2853837, 2841231,
    2828622, 2816011, 2803399, 2790787, 2778175, 2765564, 2752955, 2740348,
    2727745, 2715146, 2702552, 2689963, 2677381, 2664805, 2652237, 2639677,
    2627127, 2614586, 2602055, 2589536, 2577028, 2564533, 2552050, 2539581,
    2527127, 2514687, 2502262, 2489854, 2477462, 2465088, 2452731, 2440393,
    2428073, 2415774, 2403494, 2391235, 2378997, 2366780, 2354586, 2342415,
    2330267, 2318142, 2306042, 2293966, 2281915, 2269891, 2257892, 2245919,
    2233974, 2222056, 2210166, 2198304, 2186471, 2174667, 2162892, 2151148,
    2139434, 2127750, 2116097, 2104476, 2092887, 2081329, 2069804, 2058312,
    2046854, 2035428, 2024037, 2012679, 2001356, 1990068, 1978815, 1967597,
    1956414, 1945268, 1934157, 1923083, 1912046, 1901045, 1890082, 1879156,
    1868268, 1857417, 1846605, 1835831, 1825095, 1814398, 1803740, 1793121,
    1782541, 1772001, 1761500, 1751039, 1740618, 1730237, 1719897, 1709596,
    1699337, 1689118, 1678940, 1668802, 1658706, 1648651, 1638638, 1628665,
    1618735, 1608846, 1598998, 1589192, 1579429, 1569707, 1560027, 1550389,
    1540794, 1531240, 1521729, 1512260, 1502834, 1493450, 1484109, 1474810,
    1465553, 1456339, 1447168, 1438040, 1428953, 1419910, 1410909, 1401951,
    1393036, 1384163, 1375333, 1366546, 1357801, 1349099, 1340439, 1331822,
    1323248, 1314716, 1306227, 1297780, 1289376, 1281014, 1272694, 1264417,
    1256182, 1247989, 1239839, 1231730, 1223664, 1215639, 1207657, 1199716,
    1191818, 1183961, 1176145, 1168371, 1160639, 1152948, 1145299, 1137691,
    1130124, 1122598, 1115113, 1107669, 1100266, 1092903, 1085581, 1078300,
    1071059, 1063859, 1056698, 1049578, 1042498, 1035458, 1028457, 1021497,
    1014576, 1007694, 1000851, 994048, 987284, 980559, 973873, 967225, 960617,
    954046, 947514, 941020, 934565, 928147, 921767, 915425, 909120, 902853,
    896624, 890431, 884275, 878157, 872075, 866029, 860021, 854048, 848112,
    842212, 836348, 830519, 824726, 818969, 813247, 807560, 801908, 796291,
    790709, 785162, 779649, 774170, 768726, 763315, 757939, 752596, 747286,
    742010, 736768, 731558, 726382, 721238, 716127, 711048, 706002, 700988,
    696006, 691056, 686138, 681251, 676396, 671572, 666779, 662018, 657287,
    652587, 647917, 643277, 638668, 634089, 629540, 625021, 620531, 616071,
    611640, 607238, 602866, 598522, 594207, 589920, 585662, 581432, 577230,
    573056, 568910, 564792, 560701, 556637, 552601, 548592, 544609, 540654,
    536725, 532822, 528946, 525096, 521272, 517474, 513702, 509955, 506234,
    502538, 498867, 495221, 491600, 488004, 484433, 480885, 477363, 473864,
    470389, 466938, 463511, 460108, 456728, 453371, 450038, 446727, 443440,
    440175, 436933, 433713, 430516, 427341, 424188, 421057, 417948, 414860,
    411795, 408750, 405727, 402725, 399744, 396784, 393845, 390926, 388028,
    385150, 382293, 379456, 376639, 373841, 371064, 368306, 365567, 362848,
    360149, 357468, 354806, 352164, 349540, 346935, 344348, 341780, 339230,
    336698, 334185, 331689, 329211, 326751, 324308, 321883, 319476, 317085,
    314712, 312356, 310017, 307694, 305389, 303100, 300827, 298571, 296331,
    294107, 291900, 289708, 287532, 285372, 283227, 281098, 278985, 276887,
    274804, 272736, 270683, 268645, 266622, 264614, 262620, 260641, 258676,
    256726, 254789, 252867, 250959, 249065, 247185, 245318, 243466, 241626,
    239801, 237988, 236189, 234403, 232630, 230870, 229124, 227389, 225668,
    223960, 222263, 220580, 218909, 217250, 215603, 213969, 212346, 210736,
    209137, 207551, 205976, 204412, 202860, 201320, 199791, 198274, 196767,
    195272, 193788, 192315, 190853, 189401, 187961, 186531, 185112, 183703,
    182305, 180917, 179540, 178173, 176816, 175469, 174132, 172805, 171488,
    170181, 168883, 167596, 166318, 165049, 163790, 162540, 161300, 160069,
    158847, 157634, 156431, 155236, 154050, 152874, 151706, 150546, 149396,
    148254, 147121, 145996, 144880, 143772, 142672, 141581, 140497, 139422,
    138355, 137297, 136246, 135203, 134167, 133140, 132120, 131108, 130104,
    129107, 128118, 127136, 126162, 125195, 124235, 123282, 122337, 121399,
    120468, 119544, 118627, 117717, 116814, 115917, 115028, 114145, 113268,
    112399, 111536, 110679, 109829, 108986, 108149, 107318, 106494, 105675,
    104863, 104057, 103258, 102464, 101676, 100895, 100119, 99349, 98585,
    97827, 97074, 96328, 95587, 94851, 94121, 93397, 92678, 91965, 91257,
    90555, 89858, 89166, 88479, 87798, 87122, 86451, 85785, 85124, 84469,
    83818, 83172, 82531, 81895, 81264, 80638, 80016, 79400, 78788, 78180,
    77577, 76979, 76386, 75797, 75212, 74632, 74056, 73485, 72918, 72356,
    71798, 71244, 70694, 70148, 69607, 69070, 68537, 68008, 67483, 66962,
    66445, 65932, 65423, 64918, 64416, 63919, 63425, 62935, 62449, 61967,
    61488, 61013, 60542, 60074, 59610, 59149, 58692, 58239, 57788, 57342,
    56899, 56459, 56022, 55589, 55160, 54733, 54310, 53890, 53473, 53060,
    52650, 52242, 51838, 51437, 51040, 50645, 50253, 49864, 49479, 49096,
    48716, 48339, 47965, 47594, 47226, 46860, 46497, 46138, 45781, 45426,
    45075, 44726, 44380, 44036, 43695, 43357, 43021, 42688, 42358, 42030,
    41704, 41381, 41061, 40743, 40427, 40114, 39803, 39495, 39189, 38886,
    38584, 38286, 37989, 37695, 37403, 37113, 36825, 36540, 36257, 35976,
    35697, 35421, 35146, 34874, 34603, 34335, 34069, 33805, 33543, 33283,
    33025, 32769, 32515, 32263, 32013, 31765, 31518, 31274, 31032, 30791,
    30552, 30315, 30080, 29847, 29616, 29386, 29158, 28932, 28708, 28485,
    28264, 28045, 27827, 27611, 27397, 27185, 26974, 26765, 26557, 26351,
    26146, 25944, 25742, 25543, 25344, 25148, 24953, 24759, 24567, 24376,
    24187, 24000, 23813, 23629, 23445, 23263, 23083, 22904, 22726, 22549,
    22374, 22201, 22028, 21857, 21688, 21519, 21352, 21187, 21022, 20859,
    20697, 20536, 20377, 20219, 20062, 19906, 19752, 19598, 19446, 19295,
    19145, 18997, 18849, 18703, 18557, 18413, 18270, 18129, 17988, 17848,
    17709, 17572, 17435, 17300, 17166, 17032, 16900, 16769, 16639, 16509,
    16381, 16254, 16128, 16002, 15878, 15755, 15632, 15511, 15391, 15271,
    15152, 15035, 14918, 14802, 14687, 14573, 14460, 14347, 14236, 14125,
    14016, 13907, 13799, 13691, 13585, 13479, 13375, 13271, 13168, 13065,
    12964, 12863, 12763, 12664, 12566, 12468, 12371, 12275, 12180, 12085,
    11991, 11898, 11805, 11714, 11623, 11532, 11443, 11354, 11266, 11178,
    11091, 11005, 10919, 10834, 10750, 10667, 10584, 10502, 10420, 10339,
    10259, 10179, 10100, 10021, 9943, 9866, 9789, 9713, 9638, 9563, 9489,
    9415, 9342, 9269, 9197, 9125, 9054, 8984, 8914, 8845, 8776, 8708, 8640,
    8573, 8506, 8440, 8375, 8310, 8245, 8181, 8117, 8054, 7992, 7929, 7868,
    7807, 7746, 7686, 7626, 7567, 7508, 7449, 7392, 7334, 7277, 7220, 7164,
    7109, 7053, 6998, 6944, 6890, 6836, 6783, 6731, 6678, 6626, 6575, 6524,
    6473, 6423, 6373, 6323, 6274, 6225, 6177, 6129, 6081, 6034, 5987, 5940,
    5894, 5848, 5803, 5758, 5713, 5668, 5624, 5581, 5537
  >>
\* np.log(qu(z)) at the nodes
LogQuTable ==
  <<
    -134351592, -134220542, -134089492, -133958442, -133827392, -133696343,
    -133565294, -133434245, -133303196, -133172147, -133041099, -132910050,
    -132779002, -132647954, -132516906, -132385859, -132254811, -132123764,
    -131992717, -131861670, -131730624, -131599577, -131468531, -131337485,
    -131206439, -131075394, -130944348, -130813303, -130682258, -130551214,
    -130420169, -130289125, -130158081, -130027037, -129895993, -129764950,
    -129633906, -129502863, -129371821, -129240778, -129109736, -128978694,
    -128847652, -128716610, -128585569, -128454528, -128323487, -128192446,
    -128061406, -127930366, -127799326, -127668286, -127537247, -127406208,
    -127275169, -127144130, -127013092, -126882054, -126751016, -126619978,
    -126488941, -126357904, -126226867, -126095831, -125964794, -125833759,
    -125702723, -125571688, -125440653, -125309618, -125178583, -125047549,
    -124916515, -124785482, -124654448, -124523415, -124392383, -124261350,
    -124130318, -123999287, -123868255, -123737224, -123606193, -123475163,
    -123344133, -123213103, -123082073, -122951044, -122820015, -122688987,
    -122557959, -122426931, -122295904, -122164876, -122033850, -121902823,
    -121771797, -121640772, -121509746, -121378721, -121247697, -121116673,
    -120985649, -120854625, -120723602, -120592580, -120461557, -120330535,
    -120199514, -120068493, -119937472, -119806452, -119675432, -119544412,
    -119413393, -119282375, -119151356, -119020338, -118889321, -118758304,
    -118627288, -118496271, -118365256, -118234240, -118103226, -117972211,
    -117841197, -117710184, -117579171, -117448159, -117317146, -117186135,
    -117055124, -116924113, -116793103, -116662093, -116531084, -116400075,
    -116269067, -116138060, -116007052, -115876046, -115745040, -115614034,
    -115483029, -115352024, -115221020, -115090017, -114959014, -114828011,
    -114697009, -114566008, -114435007, -114304007, -114173007, -114042008,
    -113911009, -113780011, -113649014, -113518017, -113387021, -113256025,
    -113125030, -112994036, -112863042, -112732049, -112601056, -112470064,
    -112339073, -112208082, -112077092, -111946103, -111815114, -111684126,
    -111553138, -111422151, -111291165, -111160180, -111029195, -110898211,
    -110767227, -110636245, -110505263, -110374281, -110243301, -110112321,
    -109981342, -109850363, -109719385, -109588408, -109457432, -109326457,
    -109195482, -109064508, -108933535, -108802562, -108671591, -108540620,
    -108409650, -108278680, -108147712, -108016744, -107885777, -107754811,
    -107623846, -107492882, -107361918, -107230956, -107099994, -106969033,
    -106838073, -106707114, -106576155, -106445198, -106314241, -106183286,
    -106052331, -105921377, -105790424, -105659472, -105528521, -105397571,
    -105266622, -105135674, -105004727, -104873781, -104742836, -104611891,
    -104480948, -104350006, -104219065, -104088125, -103957186, -103826247,
    -103695310, -103564374, -103433440, -103302506, -103171573, -103040641,
    -102909711, -102778781, -102647853, -102516926, -102386000, -102255075,
    -102124151, -101993228, -101862307, -101731387, -101600467, -101469550,
    -101338633, -101207717, -101076803, -100945890, -100814978, -100684068,
    -100553159, -100422251, -100291344, -100160439, -100029534, -99898632,
    -99767730, -99636830, -99505931, -99375034, -99244138, -99113243,
    -98982350, -98851458, -98720567, -98589678, -98458791, -98327905,
    -98197020, -98066137, -97935255, -97804374, -97673496, -97542618,
    -97411743, -97280868, -97149996, -97019124, -96888255, -96757387,
    -96626521, -96495656, -96364793, -96233931, -96103071, -95972213,
    -95841356, -95710502, -95579648, -95448797, -95317947, -95187099,
    -95056253, -94925409, -94794566, -94663725, -94532886, -94402049,
    -94271213, -94140380, -94009548, -93878718, -93747890, -93617064,
    -93486240, -93355418, -93224598, -93093779, -92962963, -92832149,
    -92701337, -92570526, -92439718, -92308912, -92178108, -92047306,
    -91916506, -91785709, -91654913, -91524120, -91393328, -91262539,
    -91131753, -91000968, -90870186, -90739406, -90608628, -90477852,
    -90347079, -90216308, -90085540, -89954774, -89824010, -89693249,
    -89562490, -89431733, -89300979, -89170228, -89039479, -88908732,
    -88777988, -88647247, -88516508, -88385772, -88255038, -88124307,
    -87993579, -87862854, -87732131, -87601411, -87470693, -87339979,
    -87209267, -87078558, -86947851, -86817148, -86686448, -86555750,
    -86425055, -86294364, -86163675, -86032989, -85902307, -85771627,
    -85640950, -85510277, -85379606, -85248939, -85118275, -84987614,
    -84856956, -84726302, -84595650, -84465003, -84334358, -84203717,
    -84073079, -83942444, -83811813, -83681185, -83550561, -83419940,
    -83289323, -83158709, -83028099, -82897492, -82766889, -82636290,
    -82505695, -82375103, -82244515, -82113930, -81983350, -81852773,
    -81722200, -81591631, -81461066, -81330505, -81199948, -81069395,
    -80938846, -80808301, -80677760, -80547223, -80416691, -80286162,
    -80155638, -80025118, -79894603, -79764091, -79633585, -79503082,
    -79372584, -79242090, -79111601, -78981117, -78850637, -78720162,
    -78589691, -78459225, -78328764, -78198307, -78067855, -77937408,
    -77806966, -77676529, -77546097, -77415670, -77285247, -77154830,
    -77024418, -76894011, -76763609, -76633213, -76502821, -76372435,
    -76242055, -76111679, -75981309, -75850945, -75720586, -75590233,
    -75459885, -75329542, -75199206, -75068875, -74938550, -74808231,
    -74677917, -74547610, -74417308, -74287013, -74156723, -74026440,
    -73896162, -73765891, -73635626, -73505367, -73375115, -73244869,
    -73114629, -72984396, -72854169, -72723949, -72593736, -72463529,
    -72333329, -72203135, -72072949, -71942769, -71812596, -71682430,
    -71552272, -71422120, -71291975, -71161838, -71031708, -70901585,
    -70771469, -70641361, -70511261, -70381168, -70251082, -70121004,
    -69990934, -69860872, -69730817, -69600770, -69470732, -69340701,
    -69210678, -69080663, -68950657, -68820659, -68690669, -68560687,
    -68430714, -68300750, -68170794, -68040846, -67910908, -67780978,
    -67651057, -67521144, -67391241, -67261347, -67131462, -67001586,
    -66871719, -66741862, -66612014, -66482175, -66352346, -66222527,
    -66092717, -65962917, -65833126, -65703346, -65573576, -65443815,
    -65314065, -65184325, -65054595, -64924876, -64795167, -64665468,
    -64535780, -64406103, -64276436, -64146781, -64017136, -63887502,
    -63757879, -63628268, -63498668, -63369079, -63239501, -63109935,
    -62980380, -62850837, -62721306, -62591787, -62462280, -62332785,
    -62203301, -62073830, -61944372, -61814926, -61685492, -61556071,
    -61426662, -61297266, -61167883, -61038514, -60909157, -60779813,
    -60650483, -60521165, -60391862, -60262572, -60133295, -60004033,
    -59874784, -59745549, -59616328, -59487122, -59357929, -59228752,
    -59099588, -58970439, -58841305, -58712186, -58583082, -58453992,
    -58324918, -58195859, -58066816, -57937788, -57808775, -57679779,
    -57550798, -57421833, -57292884, -57163952, -57035036, -56906136,
    -56777253, -56648386, -56519536, -56390704, -56261888, -56133089,
    -56004308, -55875544, -55746798, -55618070, -55489359, -55360666,
    -55231992, -55103335, -54974697, -54846078, -54717477, -54588895,
    -54460332, -54331787, -54203262, -54074757, -53946271, -53817804,
    -53689357, -53560930, -53432523, -53304137, -53175770, -53047425,
    -52919099, -52790795, -52662511, -52534249, -52406008, -52277788,
    -52149590, -52021414, -51893259, -51765126, -51637016, -51508928,
    -51380863, -51252820, -51124800, -50996803, -50868829, -50740878,
    -50612952, -50485048, -50357169, -50229313, -50101482, -49973675,
    -49845893, -49718136, -49590403, -49462695, -49335013, -49207356,
    -49079725, -48952119, -48824540, -48696987, -48569460, -48441959,
    -48314486, -48187039, -48059619, -47932227, -47804862, -47677525,
    -47550216, -47422935, -47295682, -47168458, -47041262, -46914096,
    -46786958, -46659850, -46532771, -46405722, -46278703, -46151715,
    -46024756, -45897828, -45770931, -45644065, -45517230, -45390426,
    -45263655, -45136915, -45010207, -44883531, -44756888, -44630278,
    -44503701, -44377157, -44250647, -44124170, -43997727, -43871319,
    -43744945, -43618605, -43492301, -43366031, -43239797, -43113598,
    -42987436, -42861309, -42735219, -42609165, -42483149, -42357169,
    -42231227, -42105322, -41979455, -41853627, -41727837, -41602085,
    -41476372, -41350699, -41225065, -41099470, -40973916, -40848402,
    -40722928, -40597496, -40472104, -40346754, -40221445, -40096178,
    -39970953, -39845771, -39720632, -39595535, -39470482, -39345473,
    -39220507, -39095586, -38970709, -38845877, -38721090, -38596348,
    -38471652, -38347002, -38222399, -38097842, -37973331, -37848868,
    -37724453, -37600085, -37475766, -37351495, -37227272, -37103099,
    -36978975, -36854901, -36730877, -36606903, -36482980, -36359108,
    -36235287, -36111518, -35987801, -35864136, -35740524, -35616965,
    -35493460, -35370008, -35246610, -35123266, -34999977, -34876743,
    -34753565, -34630442, -34507375, -34384365, -34261412, -34138516,
    -34015677, -33892896, -33770174, -33647510, -33524905, -33402360,
    -33279874, -33157448, -33035082, -32912778, -32790535, -32668353,
    -32546233, -32424175, -32302180, -32180249, -32058380, -31936576,
    -31814835, -31693160, -31571549, -31450004, -31328524, -31207111,
    -31085764, -30964485, -30843272, -30722128, -30601051, -30480043,
    -30359104, -30238235, -30117435, -29996706, -29876047, -29755459,
    -29634942, -29514498, -29394125, -29273826, -29153599, -29033446,
    -28913367, -28793362, -28673432, -28553578, -28433798, -28314095,
    -28194469, -28074919, -27955447, -27836053, -27716736, -27597499,
    -27478340, -27359261, -27240262, -27121344, -27002506, -26883750,
    -26765076, -26646483, -26527973, -26409547, -26291204, -26172945,
    -26054770, -25936681, -25818676, -25700758, -25582926, -25465180,
    -25347522, -25229951, -25112469, -24995075, -24877770, -24760554,
    -24643429, -24526394, -24409450, -24292597, -24175836, -24059168,
    -23942592, -23826109, -23709720, -23593426, -23477226, -23361121,
    -23245112, -23129198, -23013382, -22897662, -22782040, -22666516,
    -22551091, -22435764, -22320537, -22205410, -22090383, -21975457,
    -21860632, -21745909, -21631289, -21516771, -21402357, -21288047,
    -21173840, -21059739, -20945743, -20831852, -20718068, -20604390,
    -20490820, -20377357, -20264002, -20150756, -20037620, -19924592,
    -19811675, -19698869, -19586173, -19473589, -19361118, -19248758,
    -19136512, -19024379, -18912361, -18800456, -18688667, -18576993,
    -18465435, -18353994, -18242669, -18131462, -18020373, -17909402,
    -17798550, -17687818, -17577205, -17466712, -17356340, -17246090,
    -17135961, -17025955, -16916071, -16806310, -16696673, -16587161,
    -16477772, -16368509, -16259372, -16150360, -16041475, -15932717,
    -15824087, -15715584, -15607210, -15498965, -15390849, -15282862,
    -15175006, -15067281, -14959687, -14852225, -14744894, -14637697,
    -14530632, -14423701, -14316903, -14210240, -14103712, -13997319,
    -13891062, -13784941, -13678957, -13573110, -13467400, -13361828,
    -13256395, -13151100, -13045945, -12940929, -12836053, -12731318,
    -12626724, -12522272, -12417961, -12313792, -12209766, -12105884,
    -12002144, -11898549, -11795098, -11691791, -11588630, -11485614,
    -11382744, -11280021, -11177444, -11075015, -10972733, -10870598,
    -10768613, -10666775, -10565087, -10463549, -10362160, -10260921,
    -10159833, -10058896, -9958110, -9857476, -9756994, -9656664, -9556487,
    -9456463, -9356593, -9256876, -9157313, -9057905, -8958652, -8859554,
    -8760611, -8661825, -8563194, -8464720, -8366403, -8268242, -8170240,
    -8072394, -7974707, -7877179, -7779809, -7682597, -7585546, -7488653,
    -7391921, -7295348, -7198936, -7102685, -7006594, -6910665, -6814897,
    -6719291, -6623847, -6528566, -6433446, -6338490, -6243697, -6149066,
    -6054600, -5960297, -5866158, -5772183, -5678373, -5584727, -5491246,
    -5397930, -5304780, -5211795, -5118976, -5026323, -4933835, -4841514,
    -4749360, -4657372, -4565551, -4473897, -4382411, -4291091, -4199939,
    -4108955, -4018139, -3927491, -3837011, -3746699, -3656556, -3566581,
    -3476776, -3387139, -3297670, -3208372, -3119242, -3030282, -2941491,
    -2852870, -2764418, -2676136, -2588025, -2500083, -2412311, -2324709,
    -2237278, -2150017, -2062926, -1976006, -1889257, -1802678, -1716269,
    -1630032, -1543965, -1458069, -1372343, -1286789, -1201406, -1116194,
    -1031152, -946282, -861583, -777054, -692697, -608511, -524496, -440653,
    -356980, -273478, -190148, -106988, -24000, 58817, 141464, 223939, 306243,
    388377, 470339, 552131, 633752, 715202, 796481, 877590, 958528, 1039295,
    1119892, 1200319, 1280575, 1360661, 1440577, 1520323, 1599899, 1679305,
    1758541, 1837607, 1916504, 1995231, 2073789, 2152177, 2230396, 2308447,
    2386328, 2464040, 2541584, 2618959, 2696165, 2773203, 2850073, 2926775,
    3003309, 3079676, 3155874, 3231906, 3307770, 3383466, 3458996, 3534359,
    3609555, 3684585, 3759449, 3834146, 3908678, 3983044, 4057244, 4131278,
    4205148, 4278852, 4352392, 4425767, 4498978, 4572024, 4644907, 4717625,
    4790180, 4862572, 4934800, 5006866, 5078768, 5150509, 5222087, 5293502,
    5364757, 5435849, 5506780, 5577550, 5648159, 5718608, 5788896, 5859023,
    5928991, 5998800, 6068448, 6137938, 6207269, 6276441, 6345455, 6414310,
    6483008, 6551548, 6619931, 6688157, 6756226, 6824138, 6891894, 6959495,
    7026939, 7094228, 7161362, 7228341, 7295166, 7361836, 7428352, 7494715,
    7560924, 7626980, 7692883, 7758634, 7824232, 7889679, 7954974, 8020117,
    8085110, 8149951, 8214643, 8279184, 8343575, 8407817, 8471910, 8535853,
    8599648, 8663295, 8726794, 8790146, 8853350, 8916407, 8979317, 9042081,
    9104699, 9167171, 9229498, 9291679, 9353716, 9415609, 9477357, 9538962,
    9600423, 9661741, 9722916, 9783949, 9844840, 9905589, 9966196, 10026663,
    10086988, 10147173, 10207218, 10267123, 10326889, 10386515, 10446003,
    10505352, 10564564, 10623637, 10682573, 10741372, 10800034, 10858560,
    10916949, 10975203, 11033322, 11091305, 11149154, 11206868, 11264449,
    11321895, 11379209, 11436389, 11493437, 11550352, 11607136, 11663788,
    11720308, 11776698, 11832957, 11889086, 11945085, 12000954, 12056694,
    12112305, 12167788, 12223143, 12278370, 12333469, 12388441, 12443287,
    12498006, 12552599, 12607066, 12661407, 12715624, 12769716, 12823684,
    12877527, 12931247, 12984844, 13038317, 13091668, 13144897, 13198003,
    13250988, 13303852, 13356595, 13409217, 13461719, 13514101, 13566364,
    13618507, 13670531, 13722437, 13774225, 13825895, 13877447, 13928882,
    13980200, 14031402, 14082488, 14133457, 14184312, 14235051, 14285675,
    14336185, 14386581, 14436863, 14487031, 14537087, 14587029, 14636859,
    14686577, 14736183, 14785678, 14835061, 14884334, 14933496, 14982548,
    15031491, 15080323, 15129047, 15177662, 15226168, 15274566, 15322857,
    15371039, 15419115, 15467084, 15514946, 15562702, 15610352, 15657896,
    15705335, 15752670, 15799899, 15847025, 15894046, 15940964, 15987778,
    16034489, 16081098, 16127604, 16174009, 16220311, 16266512, 16312612,
    16358611, 16404509, 16450307, 16496006, 16541605, 16587104, 16632505,
    16677807, 16723010, 16768116, 16813123, 16858034, 16902847, 16947563,
    16992183, 17036707, 17081134, 17125466, 17169703, 17213845, 17257892,
    17301844, 17345703, 17389467, 17433138, 17476716, 17520201, 17563593,
    17606893, 17650100, 17693216, 17736241, 17779174, 17822016, 17864768,
    17907429, 17950000, 17992481, 18034873, 18077176, 18119390, 18161515,
    18203551, 18245500, 18287361, 18329134, 18370820, 18412419, 18453931,
    18495357, 18536696, 18577950, 18619118, 18660201, 18701199, 18742112,
    18782940, 18823684, 18864345, 18904921, 18945414, 18985824, 19026151,
    19066395, 19106556, 19146636, 19186634, 19226550, 19266384, 19306138,
    19345811, 19385403, 19424915, 19464347, 19503699, 19542971, 19582164,
    19621278, 19660313, 19699270, 19738148, 19776948, 19815671, 19854315,
    19892883, 19931373, 19969787, 20008124, 20046385, 20084569, 20122678,
    20160711, 20198669, 20236551, 20274359, 20312092, 20349751, 20387335,
    20424846, 20462282, 20499646, 20536936, 20574153, 20611297, 20648368,
    20685368, 20722295, 20759150, 20795934, 20832646, 20869287, 20905858,
    20942357, 20978786, 21015145, 21051433, 21087652, 21123801, 21159881,
    21195891, 21231833, 21267705, 21303510, 21339245, 21374913, 21410513,
    21446045, 21481510, 21516908, 21552238, 21587502, 21622699, 21657830,
    21692894, 21727893, 21762825, 21797692, 21832494, 21867231, 21901902,
    21936509, 21971052, 22005530, 22039943, 22074293, 22108579, 22142802,
    22176961, 22211057, 22245090, 22279061, 22312968, 22346814, 22380597,
    22414318, 22447978, 22481576, 22515112, 22548587, 22582002, 22615355,
    22648648, 22681880, 22715052, 22748164, 22781216, 22814209, 22847141,
    22880015, 22912829, 22945585, 22978281, 23010919, 23043498, 23076020,
    23108483, 23140888, 23173236, 23205526, 23237758, 23269934, 23302052,
    23334114, 23366119, 23398068, 23429960, 23461796, 23493576, 23525300,
    23556969, 23588582, 23620140, 23651643, 23683090, 23714483, 23745822,
    23777106, 23808335, 23839511, 23870632, 23901700, 23932714, 23963675,
    23994582, 24025437, 24056238, 24086986, 24117682, 24148325, 24178916,
    24209455, 24239941, 24270376, 24300759, 24331091, 24361371, 24391600,
    24421777, 24451904, 24481980, 24512005, 24541980, 24571905, 24601779,
    24631603, 24661377, 24691102, 24720777, 24750402, 24779979, 24809506,
    24838984, 24868413, 24897793, 24927125, 24956409, 24985644, 25014831,
    25043970, 25073061, 25102104, 25131100, 25160048, 25188949, 25217803,
    25246610, 25275370, 25304083, 25332750, 25361370, 25389943, 25418471,
    25446952, 25475388, 25503778, 25532122, 25560420, 25588673, 25616881,
    25645044, 25673161, 25701234, 25729262, 25757246, 25785185, 25813079,
    25840929, 25868735, 25896498, 25924216, 25951891, 25979522, 26007109,
    26034653, 26062154, 26089612, 26117027, 26144399, 26171728, 26199015,
    26226259, 26253460, 26280620, 26307737, 26334813, 26361846, 26388838,
    26415788, 26442696, 26469563, 26496389, 26523173, 26549917, 26576619,
    26603281, 26629902, 26656482, 26683022, 26709521, 26735981, 26762400,
    26788779, 26815118, 26841417, 26867676, 26893896, 26920077, 26946218,
    26972319, 26998382, 27024405, 27050390, 27076336, 27102243, 27128111,
    27153941, 27179732, 27205486, 27231200, 27256877, 27282516, 27308117,
    27333680, 27359206, 27384694, 27410144, 27435557, 27460933, 27486272,
    27511574, 27536838, 27562066, 27587257, 27612412, 27637529, 27662611,
    27687656, 27712665, 27737637, 27762574, 27787474, 27812339, 27837168,
    27861961, 27886719, 27911441, 27936127, 27960779, 27985395, 28009976,
    28034522, 28059034, 28083510, 28107952, 28132359, 28156731, 28181069,
    28205373, 28229642, 28253877, 28278078, 28302245, 28326378, 28350478,
    28374543, 28398575, 28422574, 28446539, 28470470, 28494368, 28518233,
    28542065, 28565864, 28589630, 28613363, 28637064, 28660731, 28684366,
    28707969, 28731539, 28755077, 28778582, 28802055, 28825497, 28848906,
    28872283, 28895628, 28918942, 28942224, 28965474, 28988693, 29011881,
    29035037, 29058161, 29081255, 29104317, 29127349, 29150349, 29173319,
    29196258, 29219166, 29242043, 29264890, 29287706, 29310492, 29333248,
    29355973, 29378668, 29401333, 29423968, 29446574, 29469149, 29491694,
    29514210, 29536696, 29559152, 29581579, 29603977, 29626345, 29648684,
    29670994, 29693274, 29715526, 29737748, 29759942, 29782107, 29804243,
    29826350, 29848429, 29870479, 29892501, 29914494, 29936459, 29958395,
    29980304, 30002184, 30024036, 30045860, 30067657, 30089425, 30111166,
    30132879, 30154564, 30176222, 30197852, 30219454, 30241030, 30262578,
    30284098, 30305592, 30327058, 30348498, 30369910, 30391296, 30412654,
    30433986, 30455291, 30476569, 30497821, 30519046, 30540245, 30561418,
    30582564, 30603683, 30624777, 30645844, 30666886, 30687901, 30708890,
    30729854, 30750791, 30771703, 30792589, 30813450, 30834284, 30855094,
    30875877, 30896636, 30917369, 30938076, 30958759, 30979416, 31000048,
    31020655, 31041238, 31061795, 31082327, 31102835, 31123317, 31143775,
    31164209, 31184617, 31205001, 31225361, 31245697, 31266007, 31286294,
    31306556, 31326795, 31347009, 31367199, 31387365, 31407507, 31427625,
    31447719, 31467789, 31487836, 31507859, 31527858, 31547834, 31567786,
    31587715, 31607620, 31627502, 31647360, 31667196, 31687008, 31706797,
    31726563, 31746305, 31766025, 31785722, 31805396, 31825047, 31844675,
    31864281, 31883863, 31903424, 31922961, 31942476, 31961969, 31981439,
    32000887, 32020312, 32039715, 32059096, 32078455, 32097792, 32117106,
    32136398, 32155669, 32174917, 32194144, 32213349, 32232532, 32251693,
    32270833, 32289950, 32309047, 32328121, 32347175, 32366206, 32385217,
    32404206, 32423173, 32442120, 32461045, 32479949, 32498832, 32517693,
    32536534, 32555354, 32574153, 32592931, 32611688, 32630424, 32649139,
    32667834, 32686508, 32705161, 32723794, 32742407, 32760998, 32779570,
    32798121, 32816651, 32835161, 32853651, 32872121, 32890571, 32909000,
    32927409, 32945799, 32964168, 32982517, 33000846, 33019156, 33037445,
    33055715, 33073965, 33092195, 33110406, 33128597, 33146768, 33164920,
    33183052, 33201165, 33219258, 33237332, 33255387, 33273422, 33291438,
    33309435, 33327413, 33345371, 33363311, 33381231, 33399132, 33417015,
    33434878, 33452722, 33470548, 33488355, 33506143, 33523912, 33541662,
    33559394, 33577107, 33594802, 33612478, 33630135, 33647774, 33665395,
    33682997, 33700581, 33718146, 33735694, 33753222, 33770733, 33788226,
    33805700, 33823156, 33840595, 33858015, 33875417, 33892801, 33910167,
    33927516, 33944846, 33962159, 33979454, 33996731, 34013991, 34031233,
    34048457, 34065663, 34082853, 34100024, 34117178, 34134315, 34151434,
    34168536, 34185620, 34202687, 34219737, 34236769, 34253785, 34270783,
    34287764, 34304728, 34321675, 34338605, 34355517, 34372413, 34389292,
    34406154, 34422999, 34439827, 34456639, 34473433, 34490211, 34506973,
    34523717, 34540445, 34557156, 34573851, 34590529, 34607191, 34623836,
    34640465, 34657077, 34673673, 34690252, 34706816, 34723363, 34739893,
    34756408, 34772906, 34789388, 34805854, 34822304, 34838738, 34855156,
    34871557, 34887943, 34904313, 34920667
  >>
\* grad_s / q - s / (q * q) at the nodes: whole units and
GradSByQUnits ==
  <<
    -196826790, -195294562, -193774258, -192265785, -190769052, -189283966,
    -187810437, -186348375, -184897691, -183458296, -182030103, -180613024,
    -179206973, -177811864, -176427612, -175054132, -173691340, -172339154,
    -170997491, -169666268, -168345406, -167034822, -165734437, -164444172,
    -163163948, -161893687, -160633311, -159382743, -158141908, -156910728,
    -155689130, -154477038, -153274379, -152081079, -150897065, -149722266,
    -148556608, -147400023, -146252437, -145113782, -143983989, -142862987,
    -141750709, -140647087, -139552054, -138465542, -137387485, -136317818,
    -135256475, -134203392, -133158503, -132121746, -131093058, -130072374,
    -129059634, -128054775, -127057735, -126068455, -125086873, -124112930,
    -123146567, -122187723, -121236342, -120292364, -119355732, -118426390,
    -117504279, -116589344, -115681530, -114780780, -113887040, -113000255,
    -112120371, -111247334, -110381091, -109521590, -108668777, -107822601,
    -106983010, -106149952, -105323378, -104503236, -103689476, -102882049,
    -102080906, -101285997, -100497274, -99714689, -98938194, -98167742,
    -97403286, -96644779, -95892174, -95145426, -94404490, -93669319,
    -92939870, -92216097, -91497957, -90785406, -90078399, -89376895,
    -88680849, -87990221, -87304967, -86625045, -85950415, -85281035,
    -84616864, -83957861, -83303987, -82655202, -82011465, -81372738,
    -80738982, -80110157, -79486227, -78867151, -78252893, -77643416,
    -77038681, -76438653, -75843294, -75252568, -74666440, -74084872,
    -73507831, -72935280, -72367184, -71803510, -71244222, -70689286,
    -70138669, -69592338, -69050257, -68512395, -67978719, -67449196,
    -66923794, -66402480, -65885224, -65371993, -64862755, -64357481,
    -63856139, -63358698, -62865128, -62375400, -61889482, -61407346,
    -60928962, -60454301, -59983334, -59516031, -59052366, -58592308,
    -58135831, -57682906, -57233506, -56787603, -56345171, -55906181,
    -55470607, -55038424, -54609603, -54184120, -53761948, -53343061,
    -52927434, -52515041, -52105858, -51699859, -51297019, -50897315,
    -50500721, -50107213, -49716768, -49329361, -48944969, -48563569,
    -48185136, -47809649, -47437083, -47067417, -46700628, -46336693,
    -45975590, -45617298, -45261793, -44909056, -44559063, -44211794,
    -43867227, -43525342, -43186118, -42849533, -42515568, -42184202,
    -41855414, -41529185, -41205495, -40884324, -40565652, -40249460,
    -39935729, -39624440, -39315572, -39009109, -38705030, -38403318,
    -38103954, -37806919, -37512196, -37219767, -36929613, -36641718,
    -36356062, -36072630, -35791404, -35512366, -35235499, -34960787,
    -34688213, -34417761, -34149413, -33883153, -33618965, -33356833,
    -33096742, -32838674, -32582615, -32328548, -32076458, -31826331,
    -31578150, -31331900, -31087566, -30845134, -30604589, -30365916,
    -30129100, -29894127, -29660982, -29429652, -29200123, -28972379,
    -28746408, -28522195, -28299727, -28078991, -27859972, -27642658,
    -27427035, -27213090, -27000810, -26790182, -26581193, -26373830,
    -26168082, -25963934, -25761375, -25560393, -25360974, -25163108,
    -24966781, -24771982, -24578699, -24386921, -24196634, -24007829,
    -23820493, -23634615, -23450183, -23267187, -23085615, -22905456,
    -22726699, -22549333, -22373347, -22198731, -22025474, -21853565,
    -21682994, -21513751, -21345824, -21179205, -21013882, -20849845,
    -20687086, -20525593, -20365356, -20206367, -20048615, -19892091,
    -19736784, -19582687, -19429789, -19278080, -19127552, -18978196,
    -18830002, -18682962, -18537065, -18392304, -18248670, -18106153,
    -17964746, -17824439, -17685224, -17547093, -17410036, -17274046,
    -17139114, -17005233, -16872393, -16740588, -16609808, -16480045,
    -16351293, -16223543, -16096787, -15971017, -15846226, -15722406,
    -15599550, -15477650, -15356699, -15236689, -15117613, -14999464,
    -14882234, -14765917, -14650505, -14535991, -14422368, -14309629,
    -14197768, -14086778, -13976651, -13867381, -13758962, -13651387,
    -13544648, -13438741, -13333657, -13229392, -13125938, -13023289,
    -12921439, -12820382, -12720111, -12620620, -12521904, -12423956,
    -12326771, -12230342, -12134663, -12039729, -11945534, -11852071,
    -11759337, -11667324, -11576027, -11485441, -11395559, -11306377,
    -11217890, -11130091, -11042975, -10956537, -10870773, -10785675,
    -10701240, -10617462, -10534336, -10451857, -10370020, -10288820,
    -10208252, -10128311, -10048992, -9970291, -9892202, -9814720, -9737842,
    -9661563, -9585876, -9510779, -9436267, -9362334, -9288977, -9216191,
    -9143971, -9072314, -9001214, -8930668, -8860670, -8791218, -8722306,
    -8653930, -8586087, -8518771, -8451980, -8385708, -8319953, -8254709,
    -8189973, -8125740, -8062008, -7998772, -7936028, -7873773, -7812002,
    -7750711, -7689898, -7629558, -7569688, -7510284, -7451343, -7392860,
    -7334832, -7277256, -7220128, -7163445, -7107203, -7051399, -6996029,
    -6941090, -6886579, -6832493, -6778827, -6725579, -6672745, -6620323,
    -6568309, -6516700, -6465492, -6414683, -6364270, -6314249, -6264617,
    -6215372, -6166510, -6118029, -6069925, -6022195, -5974837, -5927848,
    -5881225, -5834964, -5789064, -5743520, -5698332, -5653495, -5609008,
    -5564866, -5521069, -5477612, -5434494, -5391711, -5349261, -5307142,
    -5265351, -5223885, -5182742, -5141920, -5101415, -5061225, -5021349,
    -4981783, -4942525, -4903572, -4864923, -4826575, -4788526, -4750772,
    -4713313, -4676146, -4639267, -4602676, -4566370, -4530347, -4494604,
    -4459139, -4423951, -4389036, -4354394, -4320021, -4285916, -4252076,
    -4218500, -4185186, -4152131, -4119333, -4086791, -4054502, -4022465,
    -3990677, -3959137, -3927842, -3896791, -3865982, -3835413, -3805082,
    -3774987, -3745127, -3715499, -3686102, -3656934, -3627993, -3599278,
    -3570786, -3542516, -3514466, -3486635, -3459021, -3431622, -3404436,
    -3377462, -3350698, -3324143, -3297794, -3271651, -3245712, -3219974,
    -3194438, -3169100, -3143959, -3119015, -3094264, -3069707, -3045341,
    -3021165, -2997177, -2973376, -2949761, -2926329, -2903080, -2880013,
    -2857125, -2834416, -2811883, -2789526, -2767344, -2745334, -2723496,
    -2701828, -2680329, -2658998, -2637832, -2616832, -2595996, -2575322,
    -2554809, -2534456, -2514262, -2494225, -2474344, -2454619, -2435047,
    -2415628, -2396360, -2377242, -2358274, -2339453, -2320780, -2302251,
    -2283868, -2265628, -2247530, -2229573, -2211756, -2194078, -2176539,
    -2159136, -2141868, -2124736, -2107737, -2090871, -2074136, -2057532,
    -2041057, -2024711, -2008493, -1992401, -1976435, -1960593, -1944875,
    -1929280, -1913806, -1898453, -1883220, -1868106, -1853110, -1838231,
    -1823469, -1808821, -1794288, -1779868, -1765561, -1751366, -1737281,
    -1723307, -1709442, -1695685, -1682035, -1668492, -1655055, -1641723,
    -1628495, -1615371, -1602349, -1589428, -1576609, -1563890, -1551271,
    -1538750, -1526326, -1514000, -1501771, -1489637, -1477598, -1465653,
    -1453801, -1442042, -1430376, -1418800, -1407315, -1395920, -1384614,
    -1373396, -1362266, -1351224, -1340268, -1329397, -1318612, -1307911,
    -1297293, -1286759, -1276308, -1265938, -1255650, -1245442, -1235314,
    -1225265, -1215295, -1205404, -1195589, -1185852, -1176191, -1166606,
    -1157096, -1147660, -1138299, -1129011, -1119795, -1110652, -1101581,
    -1092581, -1083651, -1074792, -1066002, -1057281, -1048629, -1040044,
    -1031527, -1023077, -1014693, -1006375, -998123, -989935, -981811,
    -973752, -965756, -957822, -949951, -942142, -934395, -926708, -919082,
    -911515, -904009, -896561, -889172, -881841, -874568, -867353, -860194,
    -853091, -846045, -839054, -832118, -825236, -818409, -811636, -804917,
    -798250, -791636, -785074, -778564, -772105, -765698, -759341, -753034,
    -746777, -740569, -734411, -728301, -722240, -716226, -710260, -704342,
    -698470, -692645, -686865, -681132, -675444, -669801, -664203, -658649,
    -653140, -647674, -642251, -636871, -631534, -626240, -620987, -615777,
    -610607, -605479, -600392, -595345, -590338, -585371, -580444, -575556,
    -570706, -565896, -561124, -556389, -551693, -547034, -542412, -537827,
    -533279, -528767, -524291, -519851, -515447, -511077, -506743, -502443,
    -498178, -493947, -489750, -485586, -481456, -477359, -473295, -469263,
    -465264, -461297, -457362, -453459, -449587, -445746, -441936, -438157,
    -434408, -430689, -427001, -423342, -419713, -416113, -412542, -409000,
    -405487, -402002, -398545, -395116, -391715, -388342, -384996, -381677,
    -378385, -375120, -371881, -368669, -365483, -362322, -359188, -356079,
    -352995, -349937, -346903, -343894, -340910, -337950, -335015, -332103,
    -329215, -326351, -323511, -320694, -317899, -315128, -312380, -309654,
    -306951, -304269, -301610, -298973, -296358, -293764, -291192, -288640,
    -286110, -283601, -281113, -278645, -276198, -273771, -271365, -268978,
    -266611, -264264, -261936, -259628, -257339, -255069, -252818, -250586,
    -248372, -246177, -244001, -241843, -239702, -237580, -235476, -233389,
    -231320, -229268, -227234, -225217, -223216, -221233, -219267, -217317,
    -215383, -213466, -211566, -209681, -207813, -205960, -204123, -202302,
    -200496, -198706, -196931, -195171, -193427, -191697, -189982, -188282,
    -186596, -184925, -183268, -181626, -179998, -178384, -176783, -175197,
    -173624, -172065, -170520, -168988, -167469, -165963, -164471, -162991,
    -161525, -160071, -158630, -157202, -155786, -154382, -152991, -151612,
    -150246, -148891, -147548, -146217, -144898, -143590, -142294, -141010,
    -139737, -138475, -137225, -135985, -134757, -133539, -132333, -131137,
    -129952, -128778, -127614, -126460, -125317, -124185, -123062, -121950,
    -120847, -119755, -118672, -117599, -116536, -115483, -114439, -113405,
    -112380, -111364, -110358, -109361, -108373, -107394, -106424, -105463,
    -104511, -103568, -102633, -101707, -100790, -99880, -98980, -98088,
    -97203, -96328, -95460, -94600, -93749, -92905, -92069, -91241, -90421,
    -89609, -88804, -88007, -87217, -86434, -85659, -84892, -84131, -83378,
    -82632, -81893, -81161, -80435, -79717, -79006, -78301, -77603, -76912,
    -76227, -75549, -74878, -74213, -73554, -72901, -72255, -71615, -70982,
    -70354, -69732, -69117, -68507, -67903, -67305, -66713, -66127, -65546,
    -64971, -64402, -63838, -63280, -62727, -62180, -61638, -61101, -60569,
    -60043, -59522, -59006, -58495, -57989, -57488, -56992, -56501, -56015,
    -55533, -55057, -54585, -54117, -53655, -53197, -52743, -52294, -51850,
    -51409, -50974, -50542, -50115, -49692, -49274, -48859, -48449, -48043,
    -47641, -47243, -46849, -46458, -46072, -45690, -45311, -44937, -44566,
    -44198, -43835, -43475, -43119, -42766, -42417, -42071, -41729, -41391,
    -41055, -40723, -40395, -40070, -39748, -39429, -39114, -38801, -38492,
    -38186, -37883, -37583, -37287, -36993, -36702, -36414, -36129, -35847,
    -35567, -35291, -35017, -34746, -34478, -34213, -33950, -33690, -33432,
    -33177, -32925, -32675, -32428, -32183, -31941, -31701, -31463, -31228,
    -30996, -30765, -30537, -30311, -30088, -29866, -29647, -29431, -29216,
    -29003, -28793, -28584, -28378, -28174, -27972, -27772, -27574, -27377,
    -27183, -26991, -26800, -26612, -26425, -26240, -26057, -25876, -25697,
    -25519, -25343, -25169, -24997, -24826, -24657, -24489, -24323, -24159,
    -23997, -23835, -23676, -23518, -23362, -23207, -23053, -22901, -22751,
    -22602, -22454, -22308, -22163, -22020, -21878, -21737, -21598, -21460,
    -21323, -21188, -21054, -20921, -20789, -20659, -20529, -20401, -20275,
    -20149, -20025, -19901, -19779, -19658, -19538, -19419, -19301, -19185,
    -19069, -18955, -18841, -18729, -18617, -18507, -18397, -18289, -18181,
    -18074, -17969, -17864, -17760, -17657, -17555, -17454, -17354, -17255,
    -17156, -17059, -16962, -16866, -16771, -16677, -16583, -16491, -16399,
    -16308, -16218, -16128, -16039, -15951, -15864, -15777, -15691, -15606,
    -15522, -15438, -15355, -15273, -15191, -15110, -15030, -14950, -14871,
    -14792, -14714, -14637, -14561, -14485, -14409, -14335, -14260, -14187,
    -14114, -14041, -13969, -13898, -13827, -13757, -13687, -13618, -13549,
    -13481, -13414, -13347, -13280, -13214, -13148, -13083, -13019, -12954,
    -12891, -12828, -12765, -12702, -12641, -12579, -12518, -12458, -12398,
    -12338, -12279, -12220, -12162, -12104, -12046, -11989, -11932, -11876,
    -11820, -11764, -11709, -11654, -11600, -11546, -11492, -11439, -11386,
    -11333, -11281, -11229, -11177, -11126, -11075, -11025, -10975, -10925,
    -10875, -10826, -10777, -10728, -10680, -10632, -10584, -10537, -10490,
    -10443, -10397, -10350, -10305, -10259, -10214, -10169, -10124, -10079,
    -10035, -9991, -9948, -9904, -9861, -9818, -9776, -9733, -9691, -9649,
    -9608, -9566, -9525, -9485, -9444, -9404, -9363, -9324, -9284, -9244,
    -9205, -9166, -9128, -9089, -9051, -9013, -8975, -8937, -8900, -8863,
    -8826, -8789, -8752, -8716, -8680, -8644, -8608, -8572, -8537, -8502,
    -8467, -8432, -8397, -8363, -8329, -8295, -8261, -8227, -8194, -8161,
    -8127, -8095, -8062, -8029, -7997, -7965, -7932, -7901, -7869, -7837,
    -7806, -7775, -7744, -7713, -7682, -7651, -7621, -7591, -7561, -7531,
    -7501, -7471, -7442, -7413, -7383, -7354, -7326, -7297, -7268, -7240,
    -7211, -7183, -7155, -7127, -7100, -7072, -7045, -7017, -6990, -6963,
    -6936, -6910, -6883, -6856, -6830, -6804, -6778, -6752, -6726, -6700,
    -6675, -6649, -6624, -6599, -6574, -6549, -6524, -6499, -6474, -6450,
    -6426, -6401, -6377, -6353, -6329, -6306, -6282, -6258, -6235, -6212,
    -6188, -6165, -6142, -6119, -6097, -6074, -6051, -6029, -6007, -5984,
    -5962, -5940, -5918, -5896, -5875, -5853, -5831, -5810, -5789, -5768,
    -5746, -5725, -5704, -5684, -5663, -5642, -5622, -5601, -5581, -5561,
    -5541, -5521, -5501, -5481, -5461, -5441, -5422, -5402, -5383, -5363,
    -5344, -5325, -5306, -5287, -5268, -5249, -5230, -5212, -5193, -5175,
    -5156, -5138, -5120, -5102, -5084, -5066, -5048, -5030, -5012, -4995,
    -4977, -4960, -4942, -4925, -4908, -4890, -4873, -4856, -4839, -4822,
    -4806, -4789, -4772, -4756, -4739, -4723, -4706, -4690, -4674, -4658,
    -4642, -4626, -4610, -4594, -4578, -4562, -4547, -4531, -4516, -4500,
    -4485, -4470, -4454, -4439, -4424, -4409, -4394, -4379, -4364, -4349,
    -4335, -4320, -4306, -4291, -4277, -4262, -4248, -4234, -4219, -4205,
    -4191, -4177, -4163, -4149, -4135, -4122, -4108, -4094, -4081, -4067,
    -4054, -4040, -4027, -4013, -4000, -3987, -3974, -3961, -3948, -3935,
    -3922, -3909, -3896, -3883, -3871, -3858, -3846, -3833, -3820, -3808,
    -3796, -3783, -3771, -3759, -3747, -3735, -3722, -3710, -3698, -3687,
    -3675, -3663, -3651, -3639, -3628, -3616, -3605, -3593, -3582, -3570,
    -3559, -3547, -3536, -3525, -3514, -3503, -3491, -3480, -3469, -3458,
    -3448, -3437, -3426, -3415, -3404, -3394, -3383, -3372, -3362, -3351,
    -3341, -3331, -3320, -3310, -3299, -3289, -3279, -3269, -3259, -3249,
    -3239, -3229, -3219, -3209, -3199, -3189, -3179, -3169, -3160, -3150,
    -3140, -3131, -3121, -3112, -3102, -3093, -3083, -3074, -3065, -3055,
    -3046, -3037, -3028, -3019, -3010, -3000, -2991, -2982, -2973, -2965,
    -2956, -2947, -2938, -2929, -2920, -2912, -2903, -2894, -2886, -2877,
    -2869, -2860, -2852, -2843, -2835, -2827, -2818, -2810, -2802, -2793,
    -2785, -2777, -2769, -2761, -2753, -2745, -2737, -2729, -2721, -2713,
    -2705, -2697, -2689, -2681, -2674, -2666, -2658, -2651, -2643, -2635,
    -2628, -2620, -2613, -2605, -2598, -2590, -2583, -2576, -2568, -2561,
    -2554, -2546, -2539, -2532, -2525, -2518, -2510, -2503, -2496, -2489,
    -2482, -2475, -2468, -2461, -2454, -2448, -2441, -2434, -2427, -2420,
    -2414, -2407, -2400, -2393, -2387, -2380, -2374, -2367, -2360, -2354,
    -2347, -2341, -2335, -2328, -2322, -2315, -2309, -2303, -2296, -2290,
    -2284, -2278, -2271, -2265, -2259, -2253, -2247, -2241, -2235, -2229,
    -2223, -2217, -2211, -2205, -2199, -2193, -2187, -2181, -2175, -2169,
    -2164, -2158, -2152, -2146, -2141, -2135, -2129, -2124, -2118, -2112,
    -2107, -2101, -2096, -2090, -2085, -2079, -2074, -2068, -2063, -2057,
    -2052, -2047, -2041, -2036, -2031, -2025, -2020, -2015, -2009, -2004,
    -1999, -1994, -1989, -1984, -1978, -1973, -1968, -1963, -1958, -1953,
    -1948, -1943, -1938, -1933, -1928, -1923, -1918, -1914, -1909, -1904,
    -1899, -1894, -1889, -1885, -1880, -1875, -1870, -1866, -1861, -1856,
    -1852, -1847, -1842, -1838, -1833, -1829, -1824, -1819, -1815, -1810,
    -1806, -1801, -1797, -1792, -1788, -1784, -1779, -1775, -1770, -1766,
    -1762, -1757, -1753, -1749, -1744, -1740, -1736, -1732, -1727, -1723,
    -1719, -1715, -1711, -1707, -1702, -1698, -1694, -1690, -1686, -1682,
    -1678, -1674, -1670, -1666, -1662, -1658, -1654, -1650, -1646, -1642,
    -1638, -1634, -1630, -1626, -1622, -1619, -1615, -1611, -1607, -1603,
    -1600, -1596, -1592, -1588, -1585, -1581, -1577, -1573, -1570, -1566,
    -1562, -1559, -1555, -1551, -1548, -1544, -1541, -1537, -1533, -1530,
    -1526, -1523, -1519, -1516, -1512, -1509, -1505, -1502, -1498, -1495,
    -1492, -1488, -1485, -1481, -1478, -1475, -1471, -1468, -1465, -1461,
    -1458, -1455, -1451, -1448, -1445, -1442, -1438, -1435, -1432, -1429,
    -1425, -1422, -1419, -1416, -1413, -1409, -1406, -1403, -1400, -1397,
    -1394, -1391, -1388, -1385, -1381, -1378, -1375, -1372, -1369, -1366,
    -1363, -1360, -1357, -1354, -1351, -1348, -1345, -1342, -1340, -1337,
    -1334, -1331, -1328, -1325, -1322, -1319, -1316, -1314, -1311, -1308,
    -1305, -1302, -1299, -1297, -1294, -1291, -1288, -1285, -1283, -1280,
    -1277, -1275, -1272, -1269, -1266, -1264, -1261, -1258, -1256, -1253,
    -1250, -1248, -1245, -1242, -1240, -1237, -1235, -1232, -1229, -1227,
    -1224, -1222, -1219, -1217, -1214, -1211, -1209, -1206, -1204, -1201,
    -1199, -1196, -1194, -1191, -1189, -1187, -1184, -1182, -1179, -1177,
    -1174, -1172, -1170, -1167, -1165, -1162, -1160, -1158, -1155, -1153,
    -1150, -1148, -1146, -1143, -1141, -1139, -1137, -1134, -1132, -1130,
    -1127, -1125, -1123, -1121, -1118, -1116, -1114, -1112, -1109, -1107,
    -1105, -1103, -1100, -1098, -1096, -1094, -1092, -1090, -1087, -1085,
    -1083, -1081, -1079, -1077, -1075, -1072, -1070, -1068, -1066, -1064,
    -1062, -1060, -1058, -1056, -1054, -1052, -1049, -1047, -1045, -1043,
    -1041, -1039, -1037, -1035, -1033, -1031, -1029, -1027, -1025, -1023,
    -1021, -1019, -1017
  >>
\* the rest, in fine units
GradSByQFrac ==
  <<
    224, 145, 93, 15, 184, 180, 167, 129, 126, 43, 97, 76, 107, 142, 221, 212,
    73, 104, 187, 36, 229, 154, 68, 64, 79, 148, 151, 70, 245, 96, 172, 106,
    147, 144, 55, 202, 0, 252, 87, 29, 204, 90, 50, 56, 200, 185, 90, 121, 95,
    212, 30, 5, 206, 68, 179, 234, 64, 142, 55, 36, 198, 25, 163, 118, 47,
    250, 142, 53, 198, 170, 220, 231, 236, 160, 75, 204, 155, 195, 234, 79,
    203, 209, 111, 81, 191, 159, 116, 100, 50, 67, 157, 233, 115, 42, 162, 20,
    96, 11, 66, 218, 81, 206, 34, 201, 233, 86, 145, 197, 206, 54, 53, 182,
    80, 78, 173, 27, 250, 93, 16, 142, 13, 115, 98, 47, 233, 85, 244, 253, 99,
    209, 176, 34, 7, 249, 82, 39, 76, 84, 145, 21, 177, 246, 58, 143, 206,
    143, 48, 209, 84, 100, 109, 162, 252, 57, 224, 61, 100, 51, 77, 34, 231,
    159, 21, 221, 90, 184, 238, 194, 196, 83, 154, 147, 6, 136, 128, 35, 116,
    72, 70, 226, 101, 231, 84, 105, 181, 157, 85, 234, 57, 245, 165, 166, 43,
    58, 179, 73, 136, 210, 96, 68, 103, 140, 75, 25, 66, 236, 23, 157, 50,
    103, 164, 48, 45, 150, 69, 240, 42, 97, 227, 217, 75, 32, 28, 226, 244,
    178, 94, 22, 219, 142, 237, 154, 24, 200, 239, 179, 28, 19, 100, 191, 179,
    182, 31, 41, 242, 125, 176, 86, 31, 158, 77, 138, 152, 160, 178, 194, 171,
    47, 246, 143, 111, 243, 97, 227, 142, 93, 52, 223, 18, 107, 111, 143, 34,
    106, 146, 176, 195, 179, 83, 99, 138, 91, 84, 223, 80, 231, 207, 32, 220,
    243, 64, 138, 135, 214, 7, 146, 224, 71, 8, 83, 71, 239, 67, 45, 130, 6,
    108, 85, 82, 226, 116, 101, 1, 133, 29, 229, 232, 34, 125, 215, 250, 164,
    130, 49, 64, 47, 111, 98, 90, 156, 95, 201, 245, 238, 177, 46, 69, 204,
    135, 48, 115, 237, 47, 189, 13, 139, 146, 115, 115, 200, 159, 20, 59, 27,
    174, 226, 154, 174, 232, 8, 194, 193, 160, 244, 67, 9, 185, 184, 99, 11,
    246, 97, 125, 114, 92, 79, 82, 102, 126, 134, 94, 222, 212, 3, 40, 241, 9,
    13, 146, 37, 73, 121, 37, 182, 140, 253, 88, 227, 219, 117, 220, 54, 157,
    38, 220, 194, 212, 6, 67, 110, 101, 251, 253, 48, 82, 25, 53, 75, 254,
    229, 146, 145, 100, 137, 117, 151, 87, 21, 45, 243, 178, 179, 52, 112,
    153, 220, 96, 69, 165, 147, 29, 74, 28, 143, 152, 38, 36, 117, 248, 133,
    239, 3, 137, 67, 237, 63, 234, 155, 248, 164, 59, 84, 130, 81, 73, 237,
    188, 45, 181, 195, 194, 22, 33, 61, 196, 6, 82, 241, 40, 56, 91, 202, 183,
    80, 193, 46, 185, 128, 156, 33, 32, 166, 188, 102, 165, 116, 205, 164,
    234, 140, 115, 131, 159, 164, 108, 205, 154, 162, 175, 139, 249, 186, 139,
    37, 64, 142, 190, 125, 116, 71, 154, 11, 54, 179, 24, 247, 223, 92, 246,
    53, 153, 164, 210, 156, 122, 223, 60, 1, 151, 104, 216, 76, 35, 186, 108,
    146, 127, 136, 252, 39, 86, 208, 219, 186, 173, 243, 199, 98, 251, 198,
    246, 185, 60, 172, 47, 236, 7, 162, 219, 208, 156, 87, 24, 243, 251, 62,
    204, 176, 243, 157, 180, 59, 52, 158, 119, 186, 97, 99, 183, 79, 30, 20,
    30, 42, 33, 236, 114, 152, 64, 77, 159, 18, 131, 205, 200, 75, 45, 63, 86,
    64, 206, 203, 4, 66, 79, 240, 236, 6, 0, 155, 150, 175, 162, 43, 1, 222,
    119, 130, 178, 186, 74, 18, 191, 255, 125, 227, 217, 8, 20, 163, 88, 214,
    189, 174, 70, 35, 224, 25, 103, 99, 163, 190, 72, 213, 248, 65, 66, 137,
    164, 32, 137, 105, 75, 181, 49, 69, 117, 70, 60, 216, 155, 7, 154, 211,
    46, 40, 60, 228, 155, 216, 18, 193, 90, 82, 28, 43, 241, 224, 103, 246,
    252, 230, 32, 23, 53, 230, 145, 161, 124, 137, 47, 211, 218, 167, 157, 30,
    140, 72, 177, 39, 8, 177, 129, 210, 1, 103, 97, 69, 111, 52, 237, 241,
    149, 46, 18, 147, 6, 189, 10, 62, 171, 160, 108, 95, 199, 241, 43, 192,
    253, 45, 154, 144, 86, 54, 121, 101, 68, 90, 238, 70, 167, 85, 148, 168,
    212, 89, 123, 121, 150, 17, 42, 32, 52, 161, 168, 133, 116, 180, 126, 16,
    164, 116, 187, 179, 148, 152, 247, 233, 165, 98, 88, 188, 196, 165, 149,
    200, 114, 199, 250, 63, 199, 197, 107, 235, 116, 57, 104, 51, 200, 87, 15,
    30, 178, 249, 32, 84, 195, 152, 255, 37, 52, 87, 186, 134, 230, 3, 7, 27,
    104, 21, 76, 52, 245, 181, 157, 210, 123, 190, 192, 169, 155, 190, 52, 35,
    175, 252, 44, 100, 199, 119, 150, 72, 174, 234, 29, 105, 239, 207, 42, 33,
    211, 95, 231, 137, 99, 150, 64, 127, 113, 52, 230, 165, 142, 190, 82, 103,
    25, 132, 197, 247, 54, 157, 72, 82, 214, 238, 181, 69, 184, 41, 176, 104,
    105, 206, 174, 35, 70, 46, 245, 178, 126, 111, 158, 34, 19, 135, 150, 86,
    222, 69, 160, 6, 141, 74, 85, 193, 164, 20, 38, 239, 131, 247, 96, 210,
    97, 34, 40, 136, 84, 161, 129, 9, 75, 90, 74, 44, 20, 20, 63, 166, 93,
    116, 254, 12, 177, 253, 3, 210, 126, 21, 171, 79, 17, 4, 54, 185, 157,
    242, 199, 46, 53, 237, 100, 171, 209, 229, 247, 21, 79, 179, 80, 53, 112,
    16, 36, 185, 222, 161, 16, 56, 40, 238, 150, 47, 198, 104, 35, 3, 22, 105,
    8, 1, 96, 50, 132, 97, 214, 240, 187, 66, 147, 184, 189, 176, 154, 136,
    134, 158, 220, 76, 249, 237, 52, 217, 231, 105, 105, 241, 14, 200, 43, 65,
    20, 175, 27, 98, 144, 173, 195, 220, 2, 63, 156, 34, 220, 209, 12, 150,
    120, 187, 103, 135, 34, 66, 239, 50, 20, 156, 212, 196, 116, 237, 54, 88,
    91, 70, 35, 248, 205, 171, 152, 157, 193, 11, 132, 49, 28, 74, 195, 142,
    179, 56, 36, 126, 77, 152, 101, 187, 161, 29, 54, 242, 87, 108, 56, 191,
    9, 27, 252, 177, 65, 177, 7, 73, 125, 168, 208, 250, 44, 108, 190, 41,
    177, 92, 46, 46, 96, 201, 111, 85, 130, 250, 193, 221, 83, 38, 92, 249, 1,
    122, 104, 206, 178, 24, 3, 121, 125, 20, 65, 9, 111, 120, 40, 130, 139,
    69, 182, 224, 199, 111, 220, 17, 17, 225, 131, 251, 77, 123, 137, 123, 83,
    21, 195, 98, 244, 124, 253, 123, 247, 118, 249, 133, 27, 190, 114, 56, 20,
    9, 24, 69, 146, 1, 150, 83, 57, 76, 142, 1, 168, 133, 154, 234, 118, 66,
    78, 158, 51, 16, 54, 168, 104, 119, 216, 141, 151, 249, 180, 202, 61, 15,
    66, 215, 209, 48, 247, 39, 194, 202, 64, 38, 125, 72, 135, 59, 104, 13,
    45, 201, 227, 123, 147, 45, 74, 235, 18, 192, 246, 181, 0, 214, 57, 43,
    173, 191, 100, 155, 103, 200, 192, 79, 119, 57, 150, 142, 35, 86, 41, 155,
    173, 98, 185, 180, 84, 153, 133, 24, 84, 56, 198, 255, 228, 117, 180, 160,
    59, 134, 130, 47, 141, 158, 99, 220, 9, 237, 134, 214, 223, 159, 24, 75,
    56, 225, 68, 100, 65, 219, 51, 73, 31, 181, 11, 33, 249, 148, 240, 16,
    243, 155, 7, 56, 47, 236, 111, 186, 204, 167, 74, 182, 235, 235, 180, 73,
    169, 212, 204, 144, 33, 127, 171, 165, 110, 6, 109, 164, 170, 130, 42,
    163, 238, 11, 250, 187, 80, 184, 243, 3, 230, 159, 44, 143, 199, 213, 185,
    116, 5, 110, 174, 198, 182, 126, 30, 151, 234, 22, 27, 250, 180, 72, 182,
    0, 37, 37, 1, 185, 77, 190, 11, 53, 61, 33, 228, 132, 2, 94, 154, 179,
    172, 132, 59, 210, 72, 159, 214, 237, 228, 189, 119, 17, 141, 235, 43, 76,
    79, 53, 254, 169, 55, 168, 252, 51, 79, 77, 48, 247, 162, 50, 166, 255,
    60, 95, 103, 84, 39, 224, 126, 3, 109, 190, 246, 20, 24, 4, 214, 144, 49,
    186, 42, 129, 193, 233, 249, 241, 209, 154, 76, 230, 106, 214, 44, 107,
    147, 165, 161, 135, 86, 15, 179, 65, 185, 28, 106, 162, 197, 211, 204,
    177, 128, 59, 226, 116, 243, 92, 178, 244, 35, 61, 68, 55, 23, 228, 158,
    68, 216, 88, 198, 33, 105, 159, 195, 212, 211, 192, 155, 100, 27, 192, 84,
    214, 71, 166, 244, 49, 92, 119, 129, 122, 98, 57, 0, 182, 92, 241, 118,
    235, 80, 165, 234, 31, 69, 90, 96, 87, 62, 21, 222, 151, 64, 219, 103,
    228, 82, 177, 2, 68, 119, 156, 178, 186, 180, 160, 125, 76, 14, 193, 103,
    255, 137, 5, 116, 214, 41, 112, 169, 213, 244, 5, 10, 1, 236, 202, 155,
    95, 22, 193, 96, 241, 119, 240, 93, 189, 17, 89, 149, 197, 233, 1, 14, 14,
    3, 236, 201, 155, 98, 29, 204, 112, 9, 151, 25, 145, 253, 94, 180, 0, 64,
    118, 161, 193, 215, 226, 226, 216, 196, 165, 123, 72, 10, 194, 112, 19,
    173, 60, 194, 62, 176, 24, 118, 202, 21, 86, 142, 188, 224, 251, 13, 21,
    20, 10, 246, 218, 180, 133, 77, 11, 193, 110, 18, 174, 64, 202, 75, 195,
    50, 153, 248, 78, 155, 224, 28, 80, 124, 160, 187, 206, 217, 220, 214,
    201, 180, 150, 113, 67, 14, 209, 140, 64, 236, 144, 44, 193, 78, 211, 81,
    200, 55, 159, 255, 88, 170, 244, 55, 115, 168, 213, 252, 27, 51, 69, 79,
    82, 79, 69, 51, 27, 252, 215, 170, 119, 61, 253, 182, 104, 20, 185, 88,
    241, 131, 14, 147, 18, 139, 253, 105, 207, 46, 136, 219, 40, 111, 176,
    235, 32, 79, 120, 155, 184, 207, 225, 236, 242, 242, 236, 225, 208, 185,
    157, 123, 83, 38, 243, 187, 125, 58, 241, 163, 80, 247, 153, 54, 205, 95,
    235, 115, 245, 114, 234, 93, 203, 51, 151, 246, 79, 164, 243, 62, 131,
    196, 0, 55, 105, 150, 191, 226, 1, 27, 49, 66, 78, 85, 88, 86, 80, 69, 53,
    33, 9, 236, 202, 164, 122, 75, 23, 224, 164, 99, 31, 214, 136, 55, 225,
    135, 41, 198, 96, 245, 134, 19, 156, 33, 161, 30, 151, 11, 124, 233, 81,
    182, 23, 116, 205, 34, 115, 192, 10, 80, 146, 208, 10, 65, 116, 163, 207,
    246, 27, 59, 88, 113, 135, 153, 167, 178, 185, 189, 190, 186, 180, 170,
    156, 139, 118, 94, 67, 36, 2, 221, 180, 136, 89, 38, 240, 183, 122, 58,
    247, 177, 104, 27, 203, 120, 34, 201, 109, 13, 171, 69, 220, 112, 1, 144,
    27, 163, 40, 170, 41, 165, 30, 149, 8, 120, 230, 80, 184, 29, 127, 222,
    59, 148, 235, 63, 144, 222, 42, 115, 185, 252, 61, 123, 182, 239, 37, 88,
    137, 183, 226, 11, 49, 84, 117, 148, 175, 201, 223, 244, 5, 20, 33, 43,
    51, 56, 59, 59, 57, 52, 45, 35, 23, 9, 248, 229, 208, 184, 158, 130, 99,
    66, 30, 249, 209, 166, 122, 75, 26, 230, 177, 121, 63, 3, 196, 131, 65,
    252, 180, 107, 32, 210, 130, 48, 220, 134, 46, 211, 119, 24, 184, 85, 241,
    138, 33, 182, 73, 219, 106, 247, 130, 11, 146, 24, 155, 28, 156, 25, 148,
    14, 134, 251, 111, 225, 81, 192, 44, 150, 255, 102, 203, 46, 143, 238, 76,
    168, 2, 90, 176, 5, 88, 169, 248, 70, 146, 220, 36, 107, 176, 243, 53,
    116, 178, 239, 42, 99, 154, 208, 4, 54, 103, 150, 196, 239, 26, 66, 105,
    143, 179, 213, 245, 20, 50, 78, 104, 129, 152, 174, 194, 213, 230, 246, 4,
    16, 27, 37, 45, 52, 57, 60, 63, 63, 62, 60, 57, 51, 45, 37, 27
  >>
\* every entry of the predictor array zm is where the maps are tabulated
InRange(zm) ==
  \A i \in DOMAIN zm : \A j \in DOMAIN zm[i] : Abs(zm[i][j]) <= ZLim

\* what the cubic through four nodes adds to the value at the second, tau
\* parts of NodeStep beyond it, from the first differences d1, second d2
\* and third d3 around it (fine units)
Corr(d1, d2, d3, tau) ==
  With(<<d1, d2, d3, tau, tau * (NodeStep - tau)>>, LAMBDA v :
    With(<<MulParts(v[4], v[1]), MulParts(v[5], v[2]),
           MulParts(v[5] * (NodeStep + v[4]), v[3])>>, LAMBDA p :
      (p[1][1] * NodesPerUnit + (p[1][2] + NodeStep \div 2) \div NodeStep)
      - ((p[2][1] + (p[2][2] + (NodeStep * NodeStep)) \div SC)
           \div ((2 * NodeStep * NodeStep) \div SC))
      - ((p[3][1] + (3 * NodeStep * NodeStep * NodeStep) \div SC)
           \div ((6 * NodeStep * NodeStep * NodeStep) \div SC))))

\* the map tabulated in tb at z, -ZLim <= z <= ZLim, in fine units
Interp(tb, z) ==
  With(<<(z + ZLim) \div NodeStep, (z + ZLim) % NodeStep>>, LAMBDA v :
    With(<<tb[v[1] + 1], tb[v[1] + 2], tb[v[1] + 3], tb[v[1] + 4]>>, LAMBDA f :
      f[2] + Corr(f[3] - f[2], f[3] - 2 * f[2] + f[1],
                  f[4] - 3 * f[3] + 3 * f[2] - f[1], v[2])))

\* the same for a map tabulated in whole units (tbu) and the rest (tbf): a
\* wide number
InterpWide(tbu, tbf, z) ==
  With(<<(z + ZLim) \div NodeStep, (z + ZLim) % NodeStep>>, LAMBDA v :
    With(<<tbu[v[1] + 1], tbu[v[1] + 2], tbu[v[1] + 3], tbu[v[1] + 4],
           tbf[v[1] + 1], tbf[v[1] + 2], tbf[v[1] + 3], tbf[v[1] + 4]>>,
         LAMBDA f :
      WAdd(<<f[2], f[6]>>,
           WFine(Corr((f[3] - f[2]) * FG + (f[7] - f[6]),
                      (f[3] - 2 * f[2] + f[1]) * FG + (f[7] - 2 * f[6] + f[5]),
                      (f[4] - 3 * f[3] + 3 * f[2] - f[1]) * FG
                        + (f[8] - 3 * f[7] + 3 * f[6] - f[5]),
                      v[2])))))

\* np.log(1 + eps + np.exp(z)); eps = np.spacing(1)
qu(z) == WFine(Interp(QuTable, z))
\* scipy.special.expit(z)
expit(z) == WFine(Interp(ExpitTable, z))
\* s / q at one entry of z
SByQ(z) == WFine(Interp(SByQTable, z))
\* grad_s = s * (1 - s) at one entry of z
GradS(z) == WFine(Interp(GradSTable, z))
\* grad_s_by_q = grad_s / q - s / (q * q) at one entry of z
GradSByQ(z) == InterpWide(GradSByQUnits, GradSByQFrac, z)
\* np.log(l) for l = qu(z), at one entry of z
LogQu(z) == WFine(Interp(LogQuTable, z))

\* z = beta0 + np.dot(x, beta): an (n, 1) array; beta is indexed 0..p-1
Predictor(beta0, beta, x) ==
  [i \in DOMAIN x |->
     [j \in {0} |->
        beta0 + Sum([c \in DOMAIN x[i] |-> Mul(x[i][c], beta[c])], Cols(x))]]

\* an (n, 1) array of wide numbers
lmb(beta0, beta, x) ==
  With(Predictor(beta0, beta, x), LAMBDA z :
    [i \in DOMAIN z |-> [j \in DOMAIN z[i] |-> qu(z[i][j])]])

\* a wide number
logL(beta0, beta, x, y) ==
  With(lmb(beta0, beta, x), LAMBDA l :
    With(Predictor(beta0, beta, x), LAMBDA z :
      WSum([i \in DOMAIN z |-> WSub(WMul(y[i], LogQu(z[i][0])), l[i][0])],
           Rows(z))))

\* np.linalg.norm(beta, 2) and np.linalg.norm(beta, 1) of a (p, 1) array
Norm1(beta) ==
  Sum([j \in DOMAIN beta |-> Abs(beta[j])], Cardinality(DOMAIN beta))
RECURSIVE SumSq(_, _)
\* beta[0]^2 + ... + beta[m-1]^2
SumSq(beta, m) ==
  IF m = 0 THEN <<0, 0>> ELSE BigAdd(Sq(Abs(beta[m - 1])), SumSq(beta, m - 1))
Norm2(beta) == Sqrt(SumSq(beta, Cardinality(DOMAIN beta)), Norm1(beta) + 1)

\* a wide number
penalty(alpha, beta) ==
  WAdd(WMul(Norm2(beta),
            <<(SC - alpha) \div 2, ((SC - alpha) % 2) * (FG \div 2)>>),
       WMul(alpha, WUnits(Norm1(beta))))

loss(beta0, beta, alpha, reg_lambda, x, y) ==
  LET L == logL(beta0, beta, x, y)
      P == penalty(alpha, beta)
  IN WRound(WSub(WMul(reg_lambda, P), L))

\* reg_lambda * (1 - alpha), a wide number
Ridge(alpha, reg_lambda) == WMul(reg_lambda, WUnits(SC - alpha))

\* returns <<grad_beta0, grad_beta>>, wide numbers
grad_loss(beta0, beta, alpha, reg_lambda, x, y) ==
  With(Predictor(beta0, beta, x), LAMBDA z :
    LET n == Rows(x)
        s == [i \in DOMAIN z |-> expit(z[i][0])]
        ysq == [i \in DOMAIN z |-> WMul(y[i], SByQ(z[i][0]))]
        grad_beta0 == WSub(WSum(s, n), WSum(ysq, n))
        grad_beta ==
          [j \in DOMAIN beta |->
             WAdd(
               WSub(WSum([i \in DOMAIN z |-> WMul(x[i][j], s[i])], n),
                    WSum([i \in DOMAIN z |-> WMul(x[i][j], ysq[i])], n)),
               WMul(beta[j], Ridge(alpha, reg_lambda)))]
    IN <<grad_beta0, grad_beta>>)

\* returns <<hess_beta0, hess_beta>>, wide numbers
hessian_loss(beta0, beta, alpha, reg_lambda, x, y) ==
  With(Predictor(beta0, beta, x), LAMBDA z :
    LET n == Rows(x)
        grad_s == [i \in DOMAIN z |-> GradS(z[i][0])]
        ygsq == [i \in DOMAIN z |-> WMul(y[i], GradSByQ(z[i][0]))]
        hess_beta0 == WSub(WSum(grad_s, n), WSum(ygsq, n))
        hess_beta ==
          [j \in DOMAIN beta |->
             WAdd(
               WSub(WSum([i \in DOMAIN z |->
                            WMul(x[i][j], WMul(x[i][j], grad_s[i]))], n),
                    WSum([i \in DOMAIN z |->
                            WMul(x[i][j], WMul(x[i][j], ygsq[i]))], n)),
               Ridge(alpha, reg_lambda))]
    IN <<hess_beta0, hess_beta>>)

\* the proximal operator (ProxNoIndicator: without the factor |x| > l;
\* ProxAbsDiff: sgn(x) * ||x| - l| without the case |x| <= l)
ProxNoIndicator(x, l) == Sign(x) * (Abs(x) - l)
ProxAbsDiff(x, l) == Sign(x) * Abs(Abs(x) - l)
prox(x, l) == Sign(x) * (Abs(x) - l) * (IF Abs(x) > l THEN 1 ELSE 0)

\* Gradient update for a single coordinate, a wide number.  z is (n, 1) or
\* (n, n); xk and the products with it are shape (n,) and broadcast along
\* the columns.
grad_loss_k(z, beta_k, alpha, rl, xk, y, k) ==
  LET n == Rows(z)
      c == Cols(z)
      s == [i \in DOMAIN z |-> [j \in DOMAIN z[i] |-> expit(z[i][j])]]
      ysq == [i \in DOMAIN z |->
                [j \in DOMAIN z[i] |-> WMul(y[i], SByQ(z[i][j]))]]
  IN IF k = 0
     THEN WSub(WSum([i \in DOMAIN z |-> WSum(s[i], c)], n),
               WSum([i \in DOMAIN z |-> WSum(ysq[i], c)], n))
     ELSE WAdd(
            WSub(WSum([i \in DOMAIN z |->
                         WSum([j \in DOMAIN xk |->
                                 WMul(xk[j], Bc(s, i, j))], n)], n),
                 WSum([i \in DOMAIN z |->
                         WSum([j \in DOMAIN xk |->
                                 WMul(xk[j], Bc(ysq, i, j))], n)], n)),
            WMul(beta_k, Ridge(alpha, rl)))

\* Hessian update for a single coordinate, a wide number
hess_loss_k(z, alpha, rl, xk, y, k) ==
  LET n == Rows(z)
      c == Cols(z)
      grad_s == [i \in DOMAIN z |-> [j \in DOMAIN z[i] |-> GradS(z[i][j])]]
      ygsq == [i \in DOMAIN z |->
                 [j \in DOMAIN z[i] |-> WMul(y[i], GradSByQ(z[i][j]))]]
  IN IF k = 0
     THEN WSub(WSum([i \in DOMAIN z |-> WSum(grad_s[i], c)], n),
               WSum([i \in DOMAIN z |-> WSum(ygsq[i], c)], n))
     ELSE WAdd(
            WSub(WSum([i \in DOMAIN z |->
                         WSum([j \in DOMAIN xk |->
                                 WMul(xk[j], WMul(xk[j], Bc(grad_s, i, j)))],
                              n)], n),
                 WSum([i \in DOMAIN z |->
                         WSum([j \in DOMAIN xk |->
                                 WMul(xk[j], WMul(xk[j], Bc(ygsq, i, j)))],
                              n)], n)),
            Ridge(alpha, rl))

(***************************************************************************)
(* Bounds of the model and the inputs it draws.                            *)
(***************************************************************************)
N == 2
P == 3
MaxGrid == 2
MaxCycles == 4
MaxIter == 3
\* the arguments of a call of prox alone: |x| <= MaxProxX, 0 <= l <= MaxProxL
MaxProxX == 6
MaxProxL == 4
\* the number of predictors of a call of the pruning step alone
MaxPruneP == 10

DataSeeds == {0, 1, 2}
\* predictors in {-1, 0, 1} and counts in {0, 1, 2}; data set 0 has a
\* constant zero predictor in its first column
DataX(d) ==
  [i \in 0..N-1 |->
     [j \in 0..P-1 |->
        IF d = 0 /\ j = 0 THEN 0 ELSE SC * ((((i + 1) * (j + d)) % 3) - 1)]]
DataY(d) == [i \in 0..N-1 |-> SC * ((i + d) % 3)]
Beta0Draws == {-(SC \div 2), SC}
BetaDraws == {-SC, SC \div 2}
\* the draw of beta_hat: coefficient j is b + j / 4
BetaHatDraws == {[j \in 0..P-1 |-> b + j * (SC \div 4)] : b \in BetaDraws}
LambdaVals == {SC \div 2, SC \div 8}
Grids == UNION {[1..m -> LambdaVals] : m \in 0..MaxGrid}
AlphaVals == {0, SC \div 2, SC}
LearningRates == {SC \div 8}
\* the keys of opt_params that fitmodel_graddesc reads, and the decay rates
\* given under 'p1' and 'p2'
OptKeys == {"max_iter", "learning_rate", "p1", "p2"}
DecayRates == {SC - SC \div 8}
\* the notebook-global fit_params: unset, or set by an earlier cell
Undefined == [defined |-> FALSE, reg_lambda |-> <<>>, alpha |-> 0]
OtherParams == [defined |-> TRUE, reg_lambda |-> <<SC>>, alpha |-> SC]

\* convergence_threshold = 1e-3 = 1 / ThresholdInv
ThresholdInv == 1000

VARIABLES
  solver,          \* "cd": fitmodel, "gd": fitmodel_graddesc
  x, y,            \* the design matrix (n, p) and the counts (n, 1)
  reg_params,      \* argument of fitmodel_graddesc
  opt_params,      \* argument of fitmodel_graddesc
  fit_params,      \* the global that fitmodel_graddesc reads
  reg_lambda, alpha, \* arguments of fitmodel, locals of fitmodel_graddesc
  max_iter, e,     \* locals of fitmodel_graddesc
  beta0_hat, beta_hat, \* the random initial draw
  fit,             \* the list of fit records
  l,               \* index of the outer loop over reg_lambda
  pc,              \* position in the function
  no_convergence, c, t,
  beta_prev, beta, z_prev, z, g, h,
  L, DL,
  K,               \* the active set, a list
  ki,              \* position of the inner for loop in K
  prox_x,          \* a call of prox alone: its argument x,
  prox_l,          \* the thresholds l of its successive calls,
  prox_out,        \* and the values returned so far
  path_fit,        \* the path returned by an earlier call of fitmodel
  beta_obj,        \* the array object that the name beta is bound to
  fit_obj          \* for each record, the array its values are views of

vars == <<solver, x, y, reg_params, opt_params, fit_params, reg_lambda, alpha,
          max_iter, e, beta0_hat, beta_hat, fit, l, pc, no_convergence, c, t,
          beta_prev, beta, z_prev, z, g, h, L, DL, K, ki,
          prox_x, prox_l, prox_out, path_fit, beta_obj, fit_obj>>

\* the references to array objects: arrays are numbered in the order of
\* their allocation, 0 stands for the arrays of the random draw
refs == <<beta_obj, fit_obj>>

\* what no step of the two solvers changes
inputs == <<solver, x, y, reg_params, opt_params, fit_params, beta0_hat, beta_hat,
            prox_x, prox_l, prox_out, path_fit>>

\* np.zeros([m, 1])
Zeros(m) == [j \in 0..m-1 |-> 0]
\* the same, of wide numbers
WZeros(m) == [j \in 0..m-1 |-> WUnits(0)]
\* beta[1:] of a vector indexed 0..m
Rest(v) == [j \in 0..Cardinality(DOMAIN v)-2 |-> v[j + 1]]
\* the vector with v0 at index 0 followed by w
Cons(v0, w) == [j \in 0..Cardinality(DOMAIN w) |-> IF j = 0 THEN v0 ELSE w[j - 1]]
\* range(m), as a sequence (RangeFromOne: the indices 1..m in its place)
RangeFromOne(m) == [j \in 1..m |-> j]
Range(m) == [j \in 1..m |-> j - 1]
\* x[:, k]
Column(xm, k) == [i \in DOMAIN xm |-> xm[i][k]]

InitCommon ==
  /\ \E d \in DataSeeds : x = DataX(d) /\ y = DataY(d)
  /\ beta0_hat \in Beta0Draws
  /\ beta_hat \in BetaHatDraws
  /\ fit = <<>>
  /\ l = 0
  /\ no_convergence = 1 /\ c = 0 /\ t = 0
  /\ beta_prev = Zeros(P + 1) /\ beta = Zeros(P + 1)
  /\ z_prev = Predictor(0, Zeros(P), x) /\ z = z_prev
  /\ g = WZeros(P + 1) /\ h = WZeros(P + 1)
  /\ L = <<>> /\ DL = <<>>
  /\ K = <<>> /\ ki = 0
  /\ prox_x = 0 /\ prox_l = <<>> /\ prox_out = <<>>
  /\ path_fit = <<>>
  /\ beta_obj = 0 /\ fit_obj = <<>>

\* a call fitmodel(x, y, reg_lambda, alpha), after the random draw
InitCD ==
  /\ solver = "cd"
  /\ InitCommon
  /\ reg_lambda \in Grids
  /\ alpha \in AlphaVals
  /\ reg_params = [reg_lambda |-> reg_lambda, alpha |-> alpha]
  /\ fit_params = Undefined
  /\ opt_params = [max_iter |-> 0, learning_rate |-> 0]
  /\ max_iter = 0 /\ e = 0
  /\ pc = "outer"

\* a call fitmodel_graddesc(x, y, reg_params, opt_params), at its first line
InitGD ==
  /\ solver = "gd"
  /\ InitCommon
  /\ reg_params \in [reg_lambda : Grids, alpha : AlphaVals]
  /\ fit_params \in {Undefined, OtherParams,
                     [defined |-> TRUE, reg_lambda |-> reg_params.reg_lambda,
                      alpha |-> reg_params.alpha]}
  /\ opt_params \in
       [max_iter : 1..MaxIter, learning_rate : LearningRates]
       \cup [max_iter : 1..MaxIter, learning_rate : LearningRates,
             p1 : DecayRates]
       \cup [max_iter : 1..MaxIter, learning_rate : LearningRates,
             p1 : DecayRates, p2 : DecayRates]
  /\ reg_lambda = <<>> /\ alpha = 0
  /\ max_iter = 0 /\ e = 0
  /\ pc = "enter"

Init == InitCD \/ InitGD

\* a call of fitmodel on one grid entry with a strong L1 penalty
StrongLambdaVals == {SC, 2 * SC, 4 * SC}
InitStrong ==
  /\ solver = "cd"
  /\ InitCommon
  /\ reg_lambda \in {<<v>> : v \in StrongLambdaVals}
  /\ alpha \in {SC \div 2, SC}
  /\ reg_params = [reg_lambda |-> reg_lambda, alpha |-> alpha]
  /\ fit_params = Undefined
  /\ opt_params = [max_iter |-> 0, learning_rate |-> 0]
  /\ max_iter = 0 /\ e = 0
  /\ pc = "outer"

(***************************************************************************)
(* Steps shared by the two solvers.                                        *)
(***************************************************************************)
\* fit.append({'beta0': 0., 'beta': np.zeros([p,1])}) and "Warm initialize
\* parameters": the new last record
WarmInit(f, idx, b0, b) ==
  IF idx = 0
  THEN Append(f, [beta0 |-> b0, beta |-> b])
  ELSE Append(f, [beta0 |-> f[Len(f)].beta0, beta |-> f[Len(f)].beta])

\* "Store the parameters after convergence": fit[-1] from the working vector
StoreFit(f, b) ==
  [f EXCEPT ![Len(f)] = [beta0 |-> b[0], beta |-> Rest(b)]]

\* np.zeros(...) and beta + delta_beta make a new array (SameArray: after
\* the first one, the array at hand is written in place instead)
SameArray(obj) == IF obj = 0 THEN 1 ELSE obj
NewArray(obj) == obj + 1
\* the arrays the new last record refers to: those of the draw, or those of
\* the record before it
WarmInitObj(objs, idx) ==
  IF idx = 0 THEN Append(objs, 0) ELSE Append(objs, objs[Len(objs)])
\* fit[-1]['beta0'] = beta[0], fit[-1]['beta'] = beta[1:]: views of beta
StoreObj(objs, obj) == [objs EXCEPT ![Len(objs)] = obj]
\* an assignment into the array obj, which now holds b, as seen through the
\* records whose values are views of that array
WriteThrough(f, objs, obj, b) ==
  [i \in DOMAIN f |->
     IF objs[i] = obj THEN [beta0 |-> b[0], beta |-> Rest(b)] ELSE f[i]]

\* np.abs(DL[-1]/L[-1]) < convergence_threshold; a zero L[-1] gives inf or
\* nan, which is not below the threshold (ConvergedSigned: the same test
\* without np.abs; ConvergedNonzero: a change of exactly zero does not count)
\* for integers, ThresholdInv * |dl| < |lv| is |dl| <= (|lv| - 1) div ThresholdInv
ConvergedNonzero(dl, lv) ==
  lv # 0 /\ dl # 0 /\ Abs(dl) <= (Abs(lv) - 1) \div ThresholdInv
ConvergedSigned(dl, lv) ==
  lv # 0 /\ dl * Sign(lv) <= (Abs(lv) - 1) \div ThresholdInv
Converged(dl, lv) == lv # 0 /\ Abs(dl) <= (Abs(lv) - 1) \div ThresholdInv

\* while no_convergence and t < max_iter (WhileOffByOne: t <= max_iter;
\* WhileFirstOnly: no pass after the first)
WhileFirstOnly(nc, iter, cap) == nc = 1 /\ iter < cap /\ iter < 1
WhileOffByOne(nc, iter, cap) == nc = 1 /\ iter <= cap
WhileCondition(nc, iter, cap) == nc = 1 /\ iter < cap

\* the for loop over reg_lambda is exhausted: return fit
Return ==
  /\ pc = "outer"
  /\ l = Len(reg_lambda)
  /\ pc' = "done"
  /\ UNCHANGED <<inputs, reg_lambda, alpha, max_iter, e, fit, l, no_convergence,
                 c, t, beta_prev, beta, z_prev, z, g, h, L, DL, K, ki, refs>>

(***************************************************************************)
(* fitmodel: pathwise cyclical coordinate descent.                         *)
(***************************************************************************)
\* one pass of the outer loop up to the first test of the while loop
CDOuter ==
  /\ solver = "cd"
  /\ pc = "outer"
  /\ l < Len(reg_lambda)
  /\ InRange(Predictor(beta0_hat, beta_hat, x))
  /\ LET rl == reg_lambda[l + 1]
         grad == grad_loss(beta0_hat, beta_hat, alpha, rl, x, y)
         hess == hessian_loss(beta0_hat, beta_hat, alpha, rl, x, y)
         bp == Cons(beta0_hat, beta_hat)
     IN /\ beta_obj' = NewArray(beta_obj)
        /\ fit_obj' = WarmInitObj(fit_obj, l)
        /\ fit' = WriteThrough(WarmInit(fit, l, beta0_hat, beta_hat),
                               fit_obj', beta_obj', Zeros(P + 1))
        /\ no_convergence' = 1
        /\ c' = 0
        /\ beta_prev' = bp
        /\ beta' = Zeros(P + 1)
        /\ z_prev' = Predictor(bp[0], Rest(bp), x)
        /\ z' = z_prev'
        /\ g' = Cons(grad[1], grad[2])
        /\ h' = Cons(hess[1], hess[2])
        /\ L' = <<>>
        /\ DL' = <<>>
        /\ K' = Range(P)
        /\ ki' = 0
        /\ pc' = "for"
  /\ UNCHANGED <<inputs, reg_lambda, alpha, max_iter, e, l, t>>

\* z = z_prev - g[k]/h[k]*x[:,k]: (n, 1) or (n, n) minus (n,), an (n, n) array
UpdateZ(zp, step, xk) ==
  [i \in DOMAIN zp |-> [j \in DOMAIN xk |-> Bc(zp, i, j) - Mul(step, xk[j])]]

\* the body of "for k in K" with the whole caches g and h overwritten
CDVisitRefreshAll ==
  /\ solver = "cd"
  /\ pc = "for"
  /\ ki < Len(K)
  /\ c < MaxCycles
  /\ LET k == K[ki + 1]
         rl == reg_lambda[l + 1]
     IN IF h[k] = WUnits(0)
        THEN /\ pc' = "nonfinite"
             /\ UNCHANGED <<beta, beta_prev, z, z_prev, g, h, ki>>
        ELSE LET step == WDiv(g[k], h[k])
                 newton == beta_prev[k] - step
             IN /\ InRange(UpdateZ(z_prev, step, Column(x, k)))
                /\ beta' = [beta EXCEPT ![k] =
                              IF k > 0 THEN prox(newton, Mul(rl, alpha))
                              ELSE newton]
                /\ z' = UpdateZ(z_prev, step, Column(x, k))
                /\ g' = [j \in DOMAIN g |->
                           grad_loss_k(z', beta'[k], alpha, rl, Column(x, k), y, k)]
                /\ h' = [j \in DOMAIN h |->
                           hess_loss_k(z', alpha, rl, Column(x, k), y, k)]
                /\ beta_prev' = [beta_prev EXCEPT ![k] = beta'[k]]
                /\ z_prev' = z'
                /\ ki' = ki + 1
                /\ pc' = "for"
  /\ fit' = WriteThrough(fit, fit_obj, beta_obj, beta')
  /\ UNCHANGED <<inputs, reg_lambda, alpha, max_iter, e, l, no_convergence,
                 c, t, L, DL, K, refs>>

\* the body of "for k in K" for the coordinate K[ki]
CDVisit ==
  /\ solver = "cd"
  /\ pc = "for"
  /\ ki < Len(K)
  /\ c < MaxCycles
  /\ LET k == K[ki + 1]
         rl == reg_lambda[l + 1]
     IN IF h[k] = WUnits(0)
        THEN \* g[k]/h[k] is inf or nan: so are beta, z and the loss from here
             \* on, the test of convergence is never met again
             /\ pc' = "nonfinite"
             /\ UNCHANGED <<beta, beta_prev, z, z_prev, g, h, ki>>
        ELSE LET step == WDiv(g[k], h[k])
                 newton == beta_prev[k] - step
             IN /\ InRange(UpdateZ(z_prev, step, Column(x, k)))
                /\ beta' = [beta EXCEPT ![k] =
                              IF k > 0 THEN prox(newton, Mul(rl, alpha))
                              ELSE newton]
                /\ z' = UpdateZ(z_prev, step, Column(x, k))
                /\ g' = [g EXCEPT ![k] =
                           grad_loss_k(z', beta'[k], alpha, rl, Column(x, k), y, k)]
                /\ h' = [h EXCEPT ![k] =
                           hess_loss_k(z', alpha, rl, Column(x, k), y, k)]
                /\ beta_prev' = [beta_prev EXCEPT ![k] = beta'[k]]
                /\ z_prev' = z'
                /\ ki' = ki + 1
                /\ pc' = "for"
  /\ fit' = WriteThrough(fit, fit_obj, beta_obj, beta')
  /\ UNCHANGED <<inputs, reg_lambda, alpha, max_iter, e, l, no_convergence,
                 c, t, L, DL, K, refs>>

(***************************************************************************)
(* The set of the interpreter (CPython 2.7): an open-addressed hash table  *)
(* of 8 slots or more, a power of two.  The hash of a small non-negative   *)
(* int is the int; a key goes to slot hash mod size, or on a collision to  *)
(* the next free slot of the probe sequence i <- 5 i + perturb + 1; the    *)
(* table is rebuilt, four times the number of keys, when it is two thirds  *)
(* full.  list(s) reads the slots in order.                                *)
(***************************************************************************)
SetMinSize == 8
EmptySlot == 0 - 1
NewTable(size) == [i \in 0..size-1 |-> EmptySlot]
TableSize(tb) == Cardinality(DOMAIN tb)
Used(tb) == Cardinality({i \in DOMAIN tb : tb[i] # EmptySlot})

RECURSIVE Probe(_, _, _)
\* the slot a new key is stored in, the probe being at i
Probe(tb, i, perturb) ==
  IF tb[i % TableSize(tb)] = EmptySlot THEN i % TableSize(tb)
  ELSE Probe(tb, 5 * (i % TableSize(tb)) + perturb + 1, perturb \div 32)
InsertClean(tb, key) == [tb EXCEPT ![Probe(tb, key, key)] = key]

RECURSIVE EntriesFrom(_, _)
EntriesFrom(tb, i) ==
  IF i >= TableSize(tb) THEN <<>>
  ELSE (IF tb[i] # EmptySlot THEN <<tb[i]>> ELSE <<>>) \o EntriesFrom(tb, i + 1)
\* the keys in the order of iteration
Entries(tb) == EntriesFrom(tb, 0)

RECURSIVE NewSize(_, _)
\* the smallest size, doubling from size, above minused
NewSize(size, minused) ==
  IF size <= minused THEN NewSize(2 * size, minused) ELSE size
RECURSIVE InsertAll(_, _, _)
InsertAll(tb, keys, i) ==
  IF i > Len(keys) THEN tb
  ELSE With(InsertClean(tb, keys[i]), LAMBDA nt : InsertAll(nt, keys, i + 1))
Resize(tb, minused) ==
  InsertAll(NewTable(NewSize(SetMinSize, minused)), Entries(tb), 1)
\* s.add(key), key not in s
AddKey(tb, key) ==
  With(InsertClean(tb, key), LAMBDA nt :
    IF Used(nt) * 3 >= TableSize(nt) * 2 THEN Resize(nt, Used(nt) * 4) ELSE nt)
RECURSIVE AddAll(_, _, _)
AddAll(tb, keys, i) ==
  IF i > Len(keys) THEN tb
  ELSE With(AddKey(tb, keys[i]), LAMBDA nt : AddAll(nt, keys, i + 1))
\* set(keys), the keys distinct
SetOf(keys) == AddAll(NewTable(SetMinSize), keys, 1)
\* list(s - other): a new set to which the keys of s that are not in other
\* are added in the order of s
ListOfDifference(tb, other) ==
  Entries(AddAll(NewTable(SetMinSize),
                 SelectSeq(Entries(tb), LAMBDA k : k \notin other), 1))

\* K = list(set(K) - set([i for (i, val) in enumerate(beta[1:]) if val == 0]))
\* (UpdateActiveSetRebuilt: the difference taken from range(p), not from K)
UpdateActiveSetRebuilt(active, b) ==
  LET zeroed == {i \in DOMAIN Rest(b) : Rest(b)[i] = 0}
  IN ListOfDifference(SetOf(Range(Cardinality(DOMAIN b) - 1)), zeroed)
UpdateActiveSet(active, b) ==
  LET zeroed == {i \in DOMAIN Rest(b) : Rest(b)[i] = 0}
  IN ListOfDifference(SetOf(active), zeroed)

\* after the for loop: loss, active set, convergence, and the while test
CDEndCycle ==
  /\ solver = "cd"
  /\ pc = "for"
  /\ ki = Len(K)
  /\ c < MaxCycles
  /\ InRange(Predictor(beta[0], Rest(beta), x))
  /\ LET rl == reg_lambda[l + 1]
     IN /\ L' = Append(L, loss(beta[0], Rest(beta), alpha, rl, x, y))
        /\ K' = UpdateActiveSet(K, beta)
        /\ DL' = IF c > 0 THEN Append(DL, L'[c + 1] - L'[c]) ELSE DL
        /\ no_convergence' =
             IF c > 0 /\ Converged(DL'[Len(DL')], L'[Len(L')])
             THEN 0 ELSE no_convergence
        /\ c' = c + 1
        /\ ki' = 0
        /\ pc' = IF no_convergence' = 0 THEN "store" ELSE "for"
  /\ UNCHANGED <<inputs, reg_lambda, alpha, max_iter, e, fit, l, t,
                 beta_prev, beta, z_prev, z, g, h, refs>>

CDStore ==
  /\ solver = "cd"
  /\ pc = "store"
  /\ fit' = StoreFit(fit, beta)
  /\ fit_obj' = StoreObj(fit_obj, beta_obj)
  /\ l' = l + 1
  /\ pc' = "outer"
  /\ UNCHANGED <<inputs, reg_lambda, alpha, max_iter, e, no_convergence, c, t,
                 beta_prev, beta, z_prev, z, g, h, L, DL, K, ki, beta_obj>>

(***************************************************************************)
(* fitmodel_graddesc: pathwise proximal batch gradient descent.            *)
(***************************************************************************)
\* the lines up to the outer loop: the regularization parameters are read
\* from the global fit_params, a NameError when it is not set; then the
\* four keys of opt_params are read, a KeyError when one is missing
GDEnter ==
  /\ solver = "gd"
  /\ pc = "enter"
  /\ IF fit_params.defined /\ OptKeys \subseteq DOMAIN opt_params
     THEN /\ reg_lambda' = fit_params.reg_lambda
          /\ alpha' = fit_params.alpha
          /\ max_iter' = opt_params.max_iter
          /\ e' = opt_params.learning_rate
          /\ pc' = "outer"
     ELSE /\ pc' = "raised"
          /\ UNCHANGED <<reg_lambda, alpha, max_iter, e>>
  /\ UNCHANGED <<inputs, fit, l, no_convergence, c, t, beta_prev, beta, z_prev,
                 z, g, h, L, DL, K, ki, refs>>

GDOuter ==
  /\ solver = "gd"
  /\ pc = "outer"
  /\ l < Len(reg_lambda)
  /\ beta_obj' = NewArray(beta_obj)
  /\ fit_obj' = WarmInitObj(fit_obj, l)
  /\ beta' = Cons(beta0_hat, beta_hat)
  /\ fit' = WriteThrough(WarmInit(fit, l, beta0_hat, beta_hat),
                         fit_obj', beta_obj', beta')
  /\ no_convergence' = 1
  /\ t' = 0
  /\ g' = WZeros(P + 1)
  /\ L' = <<>>
  /\ DL' = <<>>
  /\ pc' = "while"
  /\ UNCHANGED <<inputs, reg_lambda, alpha, max_iter, e, l, c, beta_prev,
                 z_prev, z, h, K, ki>>

\* beta = beta + delta_beta; beta[1:] = prox(beta[1:], rl*alpha)
\* (GDStepProxAll: beta = prox(beta, rl*alpha), the intercept included)
GDStepProxAll(b, grad, rate, thr) ==
  [j \in DOMAIN b |-> prox(b[j] - WRound(WMul(rate, grad[j])), thr)]
GDStep(b, grad, rate, thr) ==
  [j \in DOMAIN b |->
     IF j = 0 THEN b[j] - WRound(WMul(rate, grad[j]))
     ELSE prox(b[j] - WRound(WMul(rate, grad[j])), thr)]

\* one iteration of the while loop (\E over a one-element set names the
\* value of an expression)
GDIter ==
  /\ solver = "gd"
  /\ pc = "while"
  /\ WhileCondition(no_convergence, t, max_iter)
  /\ InRange(Predictor(beta[0], Rest(beta), x))
  /\ LET rl == reg_lambda[l + 1]
     IN \E grad \in {grad_loss(beta[0], Rest(beta), alpha, rl, x, y)} :
        \E bn \in {GDStep(beta, Cons(grad[1], grad[2]), e, Mul(rl, alpha))} :
        InRange(Predictor(bn[0], Rest(bn), x)) /\
        \E Ln \in {Append(L, loss(bn[0], Rest(bn), alpha, rl, x, y))} :
        \E dl \in {IF t > 0 THEN Ln[Len(Ln)] - Ln[Len(Ln) - 1] ELSE 0} :
          /\ g' = Cons(grad[1], grad[2])
          /\ t' = t + 1
          /\ beta' = bn
          /\ beta_obj' = NewArray(beta_obj)
          /\ fit' = WriteThrough(fit, fit_obj, beta_obj', bn)
          /\ L' = Ln
          /\ DL' = IF t + 1 > 1 THEN Append(DL, dl) ELSE DL
          /\ no_convergence' =
               IF t + 1 > 1 /\ Converged(dl, Ln[Len(Ln)])
               THEN 0 ELSE no_convergence
  /\ UNCHANGED <<inputs, reg_lambda, alpha, max_iter, e, l, pc, c,
                 beta_prev, z_prev, z, h, K, ki, fit_obj>>

\* the while loop has ended: store, next grid point
GDStore ==
  /\ solver = "gd"
  /\ pc = "while"
  /\ ~WhileCondition(no_convergence, t, max_iter)
  /\ fit' = StoreFit(fit, beta)
  /\ fit_obj' = StoreObj(fit_obj, beta_obj)
  /\ l' = l + 1
  /\ pc' = "outer"
  /\ UNCHANGED <<inputs, reg_lambda, alpha, max_iter, e, no_convergence, c, t,
                 beta_prev, beta, z_prev, z, g, h, L, DL, K, ki, beta_obj>>

NextCD == CDOuter \/ CDVisit \/ CDEndCycle \/ CDStore \/ Return
NextGD == GDEnter \/ GDOuter \/ GDIter \/ GDStore \/ Return
Next == CDOuter \/ CDVisit \/ CDEndCycle \/ CDStore
        \/ GDEnter \/ GDOuter \/ GDIter \/ GDStore \/ Return

(***************************************************************************)
(* prox called alone, on one argument with a sequence of thresholds.       *)
(***************************************************************************)
InitProx ==
  /\ solver = "prox"
  /\ pc = "prox"
  /\ prox_x \in -MaxProxX..MaxProxX
  /\ prox_l \in [1..2 -> 0..MaxProxL]
  /\ prox_out = <<>>
  /\ x = DataX(0) /\ y = DataY(0)
  /\ reg_params = [reg_lambda |-> <<>>, alpha |-> 0]
  /\ fit_params = Undefined
  /\ opt_params = [max_iter |-> 0, learning_rate |-> 0]
  /\ reg_lambda = <<>> /\ alpha = 0 /\ max_iter = 0 /\ e = 0
  /\ beta0_hat = 0 /\ beta_hat = Zeros(P)
  /\ fit = <<>> /\ l = 0
  /\ no_convergence = 1 /\ c = 0 /\ t = 0
  /\ beta_prev = Zeros(P + 1) /\ beta = Zeros(P + 1)
  /\ z_prev = Predictor(0, Zeros(P), x) /\ z = z_prev
  /\ g = WZeros(P + 1) /\ h = WZeros(P + 1)
  /\ L = <<>> /\ DL = <<>>
  /\ K = <<>> /\ ki = 0
  /\ path_fit = <<>>
  /\ beta_obj = 0 /\ fit_obj = <<>>

\* the next call prox(prox_x, l), l the next threshold
ProxCall ==
  /\ solver = "prox"
  /\ Len(prox_out) < Len(prox_l)
  /\ prox_out' = Append(prox_out, prox(prox_x, prox_l[Len(prox_out) + 1]))
  /\ UNCHANGED <<solver, x, y, reg_params, opt_params, fit_params, beta0_hat,
                 beta_hat, prox_x, prox_l, reg_lambda, alpha, max_iter, e, fit,
                 l, pc, no_convergence, c, t, beta_prev, beta, z_prev, z, g, h,
                 L, DL, K, ki, path_fit, refs>>

NextProx == ProxCall

(***************************************************************************)
(* Two calls of fitmodel in a row: a path over a grid of two entries, then *)
(* the second entry alone with the draw fixed to the first entry's record. *)
(***************************************************************************)
SeededCall ==
  /\ solver = "cd"
  /\ pc = "done"
  /\ path_fit = <<>>
  /\ Len(fit) = 2
  /\ path_fit' = fit
  /\ beta0_hat' = fit[1].beta0
  /\ beta_hat' = fit[1].beta
  /\ reg_lambda' = <<reg_lambda[2]>>
  /\ fit' = <<>>
  /\ fit_obj' = <<>>
  /\ l' = 0
  /\ pc' = "outer"
  /\ UNCHANGED <<solver, x, y, reg_params, opt_params, fit_params, alpha,
                 max_iter, e, no_convergence, c, t, beta_prev, beta, z_prev, z,
                 g, h, L, DL, K, ki, prox_x, prox_l, prox_out, beta_obj>>

(***************************************************************************)
(* The pruning step alone, after the first cycle of a grid point with      *)
(* MaxPruneP predictors: K is still range(p), beta[p] is still 0.          *)
(***************************************************************************)
InitPrune ==
  /\ solver = "prune"
  /\ pc = "prune"
  /\ K = Range(MaxPruneP)
  /\ beta \in {b \in [0..MaxPruneP -> {0, SC}] : b[MaxPruneP] = 0}
  /\ x = DataX(0) /\ y = DataY(0)
  /\ reg_params = [reg_lambda |-> <<>>, alpha |-> 0]
  /\ fit_params = Undefined
  /\ opt_params = [max_iter |-> 0, learning_rate |-> 0]
  /\ reg_lambda = <<>> /\ alpha = 0 /\ max_iter = 0 /\ e = 0
  /\ beta0_hat = 0 /\ beta_hat = Zeros(P)
  /\ fit = <<>> /\ l = 0
  /\ no_convergence = 1 /\ c = 0 /\ t = 0
  /\ beta_prev = beta
  /\ z_prev = Predictor(0, Zeros(P), x) /\ z = z_prev
  /\ g = WZeros(P + 1) /\ h = WZeros(P + 1)
  /\ L = <<>> /\ DL = <<>>
  /\ ki = Len(K)
  /\ prox_x = 0 /\ prox_l = <<>> /\ prox_out = <<>>
  /\ path_fit = <<>>
  /\ beta_obj = 0 /\ fit_obj = <<>>

PruneCall ==
  /\ solver = "prune"
  /\ pc = "prune"
  /\ K' = UpdateActiveSet(K, beta)
  /\ pc' = "pruned"
  /\ UNCHANGED <<inputs, reg_lambda, alpha, max_iter, e, fit, l,
                 no_convergence, c, t, beta_prev, beta, z_prev, z, g, h, L, DL,
                 ki, refs>>

NextPrune == PruneCall

NextSeeded == CDOuter \/ CDVisit \/ CDEndCycle \/ CDStore \/ Return \/ SeededCall

Spec == Init /\ [][Next]_vars
SpecProx == InitProx /\ [][NextProx]_vars
SpecPrune == InitPrune /\ [][NextPrune]_vars
SpecSeeded == InitCD /\ [][NextSeeded]_vars
SpecCD == InitCD /\ [][NextCD]_vars
SpecStrong == InitStrong /\ [][NextCD]_vars
SpecGD == InitGD /\ [][NextGD]_vars
\* the function runs to completion: every enabled step is eventually taken
LiveGD == InitGD /\ [][NextGD]_vars /\ WF_vars(NextGD)

(***************************************************************************)
(* Properties.                                                             *)
(***************************************************************************)
Elems(seq) == {seq[i] : i \in 1..Len(seq)}

\* a grid point has just been initialised and its inner loop not yet begun
CDGridStart == solver = "cd" /\ pc = "for" /\ c = 0 /\ ki = 0
GDGridStart == solver = "gd" /\ pc = "while" /\ t = 0
\* inside the cycling loop of a grid point of fitmodel, or just out of it
CDCycling == solver = "cd" /\ pc \in {"for", "store"}

\* C1: warm restart.  At every grid index l >= 1 the vector the inner solver
\* starts from (beta_prev and the predictor computed from it in fitmodel,
\* beta in fitmodel_graddesc) is the converged (beta0, beta) stored in the
\* record of grid index l - 1.
C1_WarmRestart ==
  /\ (CDGridStart /\ l >= 1) =>
        /\ beta_prev = Cons(fit[l].beta0, fit[l].beta)
        /\ z_prev = Predictor(fit[l].beta0, fit[l].beta, x)
  /\ (GDGridStart /\ l >= 1) => beta = Cons(fit[l].beta0, fit[l].beta)

\* C2: when the path solver returns, fit holds one record per entry of the
\* caller's lambda grid: the grid the outer loop ran over and the alpha it
\* used are the caller's.
C2_OneRecordPerGridEntry ==
  pc = "done" =>
    /\ Len(fit) = Len(reg_params.reg_lambda)
    /\ reg_lambda = reg_params.reg_lambda
    /\ alpha = reg_params.alpha

\* C3: at the start of every grid point of fitmodel the active set holds
\* all the indices 1..p.
C3_ActiveSetInitialised == CDGridStart => Elems(K) = 1..P

\* C4 as claimed: the active set is a subset of {1..p}, never holding 0.
C4_NeverHoldsIntercept == solver = "cd" => Elems(K) \subseteq 1..P

\* C4, amended: the active set is always a set of parameter indices, a
\* subset of {0..p}, and index 0, the intercept, is a member of it at the
\* start of every grid point.
C4_ActiveSetRange ==
  solver = "cd" =>
    /\ Elems(K) \subseteq 0..P
    /\ CDGridStart => 0 \in Elems(K)
C4_Witness == CDGridStart /\ l >= 1 /\ 0 \in Elems(K)

\* C5: the pruning at the end of a cycle removes from the active set
\* exactly the indices k whose own coefficient beta[k] is zero.
C5_PruneExactlyZeroed ==
  [][(solver = "cd" /\ pc = "for" /\ ki = Len(K))
       => Elems(K') = {k \in Elems(K) : beta[k] # 0}]_vars

\* C6: within a grid point of fitmodel the active set only shrinks: no step
\* other than the initialisation of a grid point adds an index to it.
C6_ActiveSetShrinks ==
  [][(solver = "cd" /\ pc # "outer") => Elems(K') \subseteq Elems(K)]_vars
C6_Witness == solver = "cd" /\ pc = "for" /\ c >= 2 /\ Len(K) <= P - 2

\* C7: with alpha = 0 the active set of fitmodel never shrinks: after every
\* cycle it is still the set it was initialised to.
C7_RidgeKeepsActiveSet ==
  (CDCycling /\ alpha = 0) => K = Range(P)

\* C8: the predictor that fitmodel maintains is that of its current
\* parameters: after the initialisation and after every coordinate update,
\* every entry of z in row i is beta0 + x[i, :] . beta.
C8_PredictorInvariant ==
  CDCycling =>
    \A i \in DOMAIN z : \A j \in DOMAIN z[i] :
       z[i][j] = Predictor(beta_prev[0], Rest(beta_prev), x)[i][0]

\* the relative change of the objective at entry j of a loss trace is
\* below the threshold 1e-3 in absolute value
RelChangeBelow(trace, j) ==
  /\ trace[j] # 0
  /\ Abs(trace[j] - trace[j - 1])
       < (Abs(trace[j]) + ThresholdInv - 1) \div ThresholdInv

\* C9: a grid point of fitmodel leaves its cycling loop only at the end of
\* a cycle c >= 1 whose relative change of the objective is below the
\* threshold, and at the first such cycle: while it cycles no earlier cycle
\* met the rule.
C9_ConvergenceRule ==
  [][(solver = "cd" /\ pc = "for") =>
       /\ \A j \in 2..Len(L) : ~RelChangeBelow(L, j)
       /\ \/ pc' \in {"for", "nonfinite"}
          \/ /\ pc' = "store"
             /\ ki = Len(K)
             /\ c >= 1
             /\ Len(L') = c + 1
             /\ RelChangeBelow(L', c + 1)]_vars
C9_Witness == solver = "cd" /\ pc = "store" /\ c >= 3

\* C10: fitmodel_graddesc terminates.  A grid point runs at most max_iter
\* iterations, its loop is left before that exactly when the relative
\* change first falls below the threshold at an iteration t >= 2, and the
\* call ends (it returns, or raises at its first lines).
C10_GDTerminates ==
  /\ [](solver = "gd" =>
          /\ t <= max_iter
          /\ pc = "while" =>
               /\ Len(L) = t
               /\ \A j \in 2..(t - 1) : ~RelChangeBelow(L, j)
               /\ no_convergence = 0 <=> (t >= 2 /\ RelChangeBelow(L, t)))
  /\ [][(pc = "while" /\ pc' = "outer") => (no_convergence = 0 \/ t = max_iter)]_vars
  /\ <>(pc \in {"done", "raised"})
C10_Witness ==
  /\ solver = "gd" /\ pc = "done" /\ Len(fit) >= 1
  /\ t >= 2 /\ t < max_iter /\ no_convergence = 0
C10_WitnessBudget ==
  solver = "gd" /\ pc = "outer" /\ l = 1 /\ t = max_iter /\ no_convergence = 1

\* the threshold lambda * alpha of the current grid point
Threshold == Mul(reg_lambda[l + 1], alpha)

\* C11: the intercept is never soft-thresholded.  A visit of coordinate k
\* in fitmodel sets beta[k] to the Newton step for k = 0 and to prox of it
\* at lambda * alpha for k >= 1, and changes coordinate 0 only when k = 0;
\* an iteration of fitmodel_graddesc sets beta[0] to its gradient step and
\* beta[j], j >= 1, to prox of the gradient step at lambda * alpha; no
\* other step inside a grid point changes beta[0].
C11_InterceptNotThresholded ==
  [][/\ (solver = "cd" /\ pc = "for" /\ ki' = ki + 1) =>
          LET k == K[ki + 1]
              newton == beta_prev[k] - WDiv(g[k], h[k])
          IN /\ beta'[k] = IF k = 0 THEN newton ELSE prox(newton, Threshold)
             /\ k # 0 => beta'[0] = beta[0]
     /\ (solver = "gd" /\ pc = "while" /\ t' = t + 1) =>
          /\ beta'[0] = beta[0] - WRound(WMul(e, g'[0]))
          /\ \A j \in 1..P :
                beta'[j] = prox(beta[j] - WRound(WMul(e, g'[j])), Threshold)
     /\ (pc \in {"for", "while", "store"} /\ ki' # ki + 1 /\ t' # t + 1) =>
          beta'[0] = beta[0]]_vars
\* an iteration has left a nonzero intercept that is within the threshold
C11_Witness ==
  /\ solver = "gd" /\ pc = "while" /\ t >= 1
  /\ beta[0] # 0 /\ Abs(beta[0]) <= Threshold

\* C12: for every x and every l >= 0, prox(x, l) = sign(x) * max(|x| - l, 0);
\* prox(x, 0) = x, and prox(x, l) = 0 whenever |x| <= l.
C12_ProxIsSoftThreshold ==
  solver = "prox" =>
    \A i \in 1..Len(prox_out) :
       LET thr == prox_l[i]
           mag == IF Abs(prox_x) - thr > 0 THEN Abs(prox_x) - thr ELSE 0
       IN /\ prox_out[i] = Sign(prox_x) * mag
          /\ thr = 0 => prox_out[i] = prox_x
          /\ Abs(prox_x) <= thr => prox_out[i] = 0
\* prox has returned for a nonzero argument on the boundary |x| = l
C12_Witness ==
  /\ solver = "prox" /\ Len(prox_out) = 2
  /\ prox_x # 0 /\ Abs(prox_x) = prox_l[1] /\ prox_l[2] = 0

\* C13: the magnitude of prox(x, l) is non-increasing in l: for
\* 0 <= l1 <= l2, |prox(x, l2)| <= |prox(x, l1)| <= |x|, and prox(x, l)
\* never has the sign opposite to that of x.
C13_ProxMonotone ==
  solver = "prox" =>
    /\ \A i \in 1..Len(prox_out) :
          /\ Abs(prox_out[i]) <= Abs(prox_x)
          /\ Sign(prox_out[i]) * Sign(prox_x) >= 0
    /\ \A i, j \in 1..Len(prox_out) :
          prox_l[i] <= prox_l[j] => Abs(prox_out[j]) <= Abs(prox_out[i])
\* two calls on one x, the second threshold the larger and above |x|
C13_Witness ==
  /\ solver = "prox" /\ Len(prox_out) = 2
  /\ prox_x # 0 /\ prox_l[1] < Abs(prox_x) /\ Abs(prox_x) < prox_l[2]

\* C14: fitmodel never divides by a zero Hessian entry: no visit of a
\* coordinate finds h[k] = 0 unguarded, and no grid point ends up with
\* non-finite coefficients.
C14_NoZeroHessianDivision ==
  solver = "cd" =>
    /\ pc # "nonfinite"
    /\ (pc = "for" /\ ki < Len(K) /\ c < MaxCycles) => h[K[ki + 1]] # WUnits(0)

\* the caller's configuration is invalid: alpha outside [0, 1], an empty
\* grid, or a grid with an entry larger than the one before it
InvalidConfig ==
  \/ reg_params.alpha < 0 \/ reg_params.alpha > SC
  \/ reg_params.reg_lambda = <<>>
  \/ \E i \in 1..(Len(reg_params.reg_lambda) - 1) :
        reg_params.reg_lambda[i] < reg_params.reg_lambda[i + 1]

\* C15: an invalid configuration is rejected before any optimization work:
\* no grid point is started, no record is produced, and the call does not
\* return a path.
C15_InvalidConfigRejected ==
  InvalidConfig => /\ fit = <<>>
                   /\ pc \notin {"for", "while", "store", "done"}

\* a record of the path has just been stored
Stored == pc = "outer" /\ l >= 1
\* the fields of the last stored record besides the coefficients
ExtraFields == DOMAIN fit[l] \ {"beta0", "beta"}

\* C16: when fitmodel_graddesc has used up max_iter iterations at a grid
\* point without meeting the convergence rule, the record stored for it
\* holds the coefficients of the last iteration and carries a field that
\* flags it, and the path goes on.
C16_NonConvergedFlagged ==
  (solver = "gd" /\ Stored /\ no_convergence = 1) =>
     /\ fit[l].beta0 = beta[0] /\ fit[l].beta = Rest(beta)
     /\ ExtraFields # {}
     /\ ENABLED (GDOuter \/ Return)

\* C17: every stored record carries the loss trace of its grid point, one
\* entry per completed cycle (fitmodel) or iteration (fitmodel_graddesc).
C17_RecordHoldsLossTrace ==
  Stored =>
     /\ Len(L) = IF solver = "cd" THEN c ELSE t
     /\ \E f \in ExtraFields : fit[l][f] = L

\* C18: warm-restart equivalence.  The record that the path over
\* [lambda_a, lambda_b], lambda_a > lambda_b, returns for lambda_b equals
\* the record of a call at lambda_b alone that starts from the path's
\* record for lambda_a.
C18_WarmRestartEquivalence ==
  (solver = "cd" /\ pc = "done" /\ path_fit # <<>>
     /\ reg_params.reg_lambda[1] > reg_params.reg_lambda[2])
    => fit[1] = path_fit[2]

\* C19: determinism and a stable order of iteration: after every pruning
\* step the active set is listed in ascending order, so that the next
\* cycle visits the coordinates in ascending order.
C19_AscendingAfterPruning ==
  pc = "pruned" => \A i \in 1..(Len(K) - 1) : K[i] < K[i + 1]

\* C20: a visit of coordinate k by coordinate descent moves the coefficient k
\* from its current value (beta_prev[k]; from the second cycle on it is also
\* beta[k]) by the Newton step -g[k]/h[k], soft-thresholded at lambda*alpha
\* when k # 0; it recomputes the cache entries g[k] and h[k] and leaves
\* beta[j], g[j] and h[j] as they were for every j # k.
C20_SingleCoordinateFrame ==
  [][(solver = "cd" /\ pc = "for" /\ ki' = ki + 1) =>
       LET k == K[ki + 1]
           newton == beta_prev[k] - WDiv(g[k], h[k])
       IN /\ c >= 1 => beta_prev[k] = beta[k]
          /\ beta'[k] = IF k = 0 THEN newton ELSE prox(newton, Threshold)
          /\ beta_prev'[k] = beta'[k]
          /\ g'[k] = grad_loss_k(z', beta'[k], alpha, reg_lambda[l + 1],
                                 Column(x, k), y, k)
          /\ h'[k] = hess_loss_k(z', alpha, reg_lambda[l + 1], Column(x, k), y, k)
          /\ \A j \in (0..P) \ {k} :
               /\ beta'[j] = beta[j]
               /\ beta_prev'[j] = beta_prev[j]
               /\ g'[j] = g[j]
               /\ h'[j] = h[j]]_vars

\* a coordinate other than the intercept has just been visited in a second or
\* later cycle, it is nonzero and another coordinate's cache entry differs
C20_Witness ==
  /\ solver = "cd"
  /\ pc = "for"
  /\ c >= 1
  /\ ki >= 1
  /\ K[ki] # 0
  /\ beta[K[ki]] # 0
  /\ \E j \in (0..P) \ {K[ki]} : g[j] # g[K[ki]] /\ h[j] # h[K[ki]]

\* the design column of entry k of the batch gradient: x[:, k-1], the
\* predictor that coefficient k multiplies (entry 0 uses no column)
BatchColumn(k) == Column(x, IF k = 0 THEN 0 ELSE k - 1)

\* C21: the cache entries g[k] and h[k] that a visit of coordinate k
\* recomputes are the per-coordinate formulas evaluated with the design
\* column of entry k of the batch gradient and Hessian (the predictor that
\* coefficient k multiplies) and with the coefficient beta[k].
C21_PerCoordinateAgreesWithBatch ==
  [][(solver = "cd" /\ pc = "for" /\ ki' = ki + 1) =>
       LET k == K[ki + 1]
       IN /\ g'[k] = grad_loss_k(z', beta'[k], alpha, reg_lambda[l + 1],
                                 BatchColumn(k), y, k)
          /\ h'[k] = hess_loss_k(z', alpha, reg_lambda[l + 1],
                                 BatchColumn(k), y, k)]_vars

\* C22: past its first lines fitmodel_graddesc has not failed on a name
\* outside its arguments, and the lambda grid it iterates over and the alpha
\* it uses are those of its argument reg_params.
C22_UsesCallerRegParams ==
  (solver = "gd" /\ pc # "enter") =>
    /\ pc # "raised"
    /\ reg_lambda = reg_params.reg_lambda
    /\ alpha = reg_params.alpha

\* C23: once the record of a grid point is stored (the records 1..l), no
\* later step changes the values it holds: neither an assignment to the list
\* fit nor an assignment into an array that the record's values are views of.
C23_StoredRecordsImmutable ==
  [][\A i \in 1..l : i <= Len(fit) => (i <= Len(fit') /\ fit'[i] = fit[i])]_vars

\* a later grid point is being solved, or has been stored with other values,
\* after the first record was stored with a nonzero coefficient
C23_Witness ==
  /\ l >= 1
  /\ Len(fit) >= 2
  /\ pc \in {"for", "while", "store", "outer", "done"}
  /\ \E j \in 0..P-1 : fit[1].beta[j] # 0
  /\ beta # Cons(fit[1].beta0, fit[1].beta)
  /\ fit_obj[1] # beta_obj

\* the indices that the active set of the grid point held at its start and
\* holds no more
Removed == Elems(Range(P)) \ Elems(K)

\* C24: within a grid point of fitmodel an index removed from the active set
\* stays removed and its coefficient and its entries of g and h are not
\* assigned again; the record stored for the grid point holds that
\* coefficient as it stands, so as it stood at the end of the cycle of its
\* last visit.
C24_RemovedIndexFrozen ==
  [][(solver = "cd" /\ pc \in {"for", "store"}) =>
       \A j \in Removed :
         /\ pc' \in {"for", "store", "nonfinite"} =>
               /\ j \notin Elems(K')
               /\ beta'[j] = beta[j]
               /\ g'[j] = g[j]
               /\ h'[j] = h[j]
         /\ pc' = "outer" =>
               Cons(fit'[l'].beta0, fit'[l'].beta)[j] = beta[j]]_vars

\* a coordinate is visited in a third or later cycle while an index with a
\* nonzero coefficient is out of the active set
C24_Witness ==
  /\ solver = "cd"
  /\ pc = "for"
  /\ c >= 2
  /\ ki >= 1
  /\ \E j \in Removed : beta[j] # 0 /\ g[j] # WUnits(0)

\* C25: a cycle of fitmodel that starts with an empty active set assigns no
\* coefficient and no entry of g and h, appends to L the loss of the cycle
\* before, and, that loss being nonzero, ends the cycling of the grid point.
C25_EmptyActiveSetConverges ==
  [][(solver = "cd" /\ pc = "for" /\ K = <<>>) =>
       /\ beta' = beta
       /\ beta_prev' = beta_prev
       /\ g' = g
       /\ h' = h
       /\ L' = Append(L, L[Len(L)])
       /\ L[Len(L)] # 0 => (no_convergence' = 0 /\ pc' = "store")]_vars

\* the cycling has ended on a cycle that started with an empty active set:
\* its loss is nonzero and equal to that of the cycle before
C25_Witness ==
  /\ solver = "cd"
  /\ pc = "store"
  /\ K = <<>>
  /\ c >= 2
  /\ L[c] # 0
  /\ L[c] = L[c - 1]
  /\ \E j \in 0..P : beta[j] # 0

\* the smaller of two numbers
Min(a, b) == IF a <= b THEN a ELSE b

\* C26: when the loop of a grid point has ended, fitmodel has run two
\* cycles or more and fitmodel_graddesc min(2, max_iter) iterations or more;
\* after one cycle or one iteration no convergence has been declared.
C26_NoConvergenceOnFirstCycle ==
  /\ (solver = "cd" /\ pc = "store") => (c >= 2 /\ Len(L) >= 2)
  /\ (solver = "cd" /\ pc = "for" /\ c <= 1) => no_convergence = 1
  /\ (solver = "gd" /\ pc = "while" /\ t <= 1) => no_convergence = 1
  /\ (solver = "gd" /\ pc = "while"
        /\ ~WhileCondition(no_convergence, t, max_iter)) =>
        (t >= Min(2, max_iter) /\ Len(L) = t)
  /\ (solver = "gd" /\ pc = "outer" /\ l >= 1) => t >= Min(2, max_iter)

\* a grid point of fitmodel_graddesc has converged at its second iteration
\* with a budget of three
C26_Witness ==
  /\ solver = "gd"
  /\ pc = "outer"
  /\ l >= 1
  /\ max_iter = 3
  /\ t = 2
  /\ no_convergence = 0

====
